---- MODULE Spec2Model ----
(***************************************************************************)
(* Model of the TAPP indicator / condition-evaluation engine.              *)
(*                                                                         *)
(*   ConditionsService (3-rule "simplified" set)  src/conditions.js:4-273  *)
(*   ConditionsService (7-rule "full" set)     src/polygonService.js:599+  *)
(*   processAlertNormally (acquisition loop)    src/conditions.js:573-736  *)
(*   ToplistService (socket and reconnection)   src/toplistService.js     *)
(*                                                                         *)
(* Numbers are integers.  One unit is the service's EPSILON (1e-10), so    *)
(* the strict comparator's tolerance is 1 and the relative tolerance       *)
(* 0.0001 is the fraction 1 / ToleranceDenominator.                        *)
(***************************************************************************)
EXTENDS Integers, Sequences, FiniteSets, TLC

(***************************************************************************)
(* JavaScript values.  A scalar is a number, null or undefined (a missing  *)
(* property reads as undefined).  All scalars share one record shape.      *)
(***************************************************************************)
Num(n) == [t |-> "num", v |-> n]
Null == [t |-> "null", v |-> 0]
Undef == [t |-> "undef", v |-> 0]

\* a === null || a === undefined
IsNullish(a) == a.t # "num"

\* JavaScript truthiness of a scalar: null, undefined and 0 are falsy
Truthy(a) == a.t = "num" /\ a.v # 0

\* Math.abs
Abs(n) == IF n < 0 THEN -n ELSE n

\* a MACD result object {macd, signal, histogram}; a field that is absent is Undef
MacdObj(m, h) == [t |-> "obj", macd |-> m, histogram |-> h]
MacdNull == [t |-> "null", macd |-> Undef, histogram |-> Undef]
MacdUndef == [t |-> "undef", macd |-> Undef, histogram |-> Undef]

\* a candle as the evaluator reads it: only .close; lastCandle may be null
Candle(c) == [t |-> "obj", close |-> c]
CandleNull == [t |-> "null", close |-> Undef]

(***************************************************************************)
(* Constants of the services.                                              *)
(***************************************************************************)
EPSILON == 1
ToleranceDenominator == 10000

\* the two rule sets, in the order evaluateConditions assigns conditions.<key>
SimplifiedOrder == <<"macd5mPositive", "ema18Above200_1m", "priceAboveVwap">>
FullOrder == <<"macd5mPositive", "macd1mPositive", "ema18Above200_1m",
               "ema18AboveVwap_1m", "vwapAboveEma200_1m", "closeAboveEma18_1m",
               "ema200AboveEma18_5m">>
RuleSets == {"simplified", "full"}
RuleOrder(rs) == IF rs = "simplified" THEN SimplifiedOrder ELSE FullOrder
Range(s) == {s[i] : i \in 1..Len(s)}
RuleKeys(rs) == Range(RuleOrder(rs))

\* this.conditionNames
conditionNames(rs) ==
  IF rs = "simplified"
  THEN [k \in RuleKeys("simplified") |->
          CASE k = "macd5mPositive" -> "MACD Histogram (5m) > 0"
            [] k = "ema18Above200_1m" -> "EMA 18 (1m) > EMA 200 (1m)"
            [] OTHER -> "Precio > VWAP (1m)"]
  ELSE [k \in RuleKeys("full") |->
          CASE k = "macd5mPositive" -> "MACD (5m) > 0"
            [] k = "macd1mPositive" -> "MACD (1m) > 0"
            [] k = "ema18Above200_1m" -> "EMA 18 (1m) > EMA 200 (1m)"
            [] k = "ema18AboveVwap_1m" -> "EMA 18 (1m) > VWAP (1m)"
            [] k = "vwapAboveEma200_1m" -> "VWAP (1m) > EMA 200 (1m)"
            [] k = "closeAboveEma18_1m" -> "Close > EMA 18 (1m)"
            [] OTHER -> "EMA 200 (5m) > EMA 18 (5m)"]

(***************************************************************************)
(* Comparators and field extraction.                                       *)
(***************************************************************************)
\* a comparator that accepts a difference of exactly the tolerance
isGreaterThanOrEqual(a, b) ==
  IF IsNullish(a) \/ IsNullish(b) THEN FALSE ELSE (a.v - b.v) >= EPSILON

\* a comparator whose tolerance is b * 0.0001 instead of |b| * 0.0001
isGreaterThanWithSignedTolerance(a, b) ==
  IF IsNullish(a) \/ IsNullish(b) THEN FALSE
  ELSE (a.v - b.v) * ToleranceDenominator > b.v

\* isGreaterThan(a, b, tolerance = this.EPSILON)
isGreaterThan(a, b) ==
  IF IsNullish(a) \/ IsNullish(b) THEN FALSE ELSE (a.v - b.v) > EPSILON

\* isGreaterThanWithTolerance(a, b, percentageTolerance = 0.0001):
\* (a - b) > |b| * 0.0001, with both sides multiplied by 10000
isGreaterThanWithTolerance(a, b) ==
  IF IsNullish(a) \/ IsNullish(b) THEN FALSE
  ELSE (a.v - b.v) * ToleranceDenominator > Abs(b.v)

\* an extraction that falls back to the macd field
getMACDHistogramOrMacd(macdData) ==
  IF macdData.t # "obj" THEN Null
  ELSE IF Truthy(macdData.histogram) THEN macdData.histogram
  ELSE IF Truthy(macdData.macd) THEN macdData.macd ELSE Null

\* getMACDHistogram(macdData): macdData.histogram || null
getMACDHistogram(macdData) ==
  IF macdData.t # "obj" THEN Null
  ELSE IF Truthy(macdData.histogram) THEN macdData.histogram ELSE Null

\* getMACDValue(macdData): macdData.macd || null
getMACDValue(macdData) ==
  IF macdData.t # "obj" THEN Null
  ELSE IF Truthy(macdData.macd) THEN macdData.macd ELSE Null

\* const closePrice = currentPrice || lastCandle?.close
closePrice(inp) ==
  IF Truthy(inp.currentPrice) THEN inp.currentPrice
  ELSE IF inp.lastCandle.t # "obj" THEN Undef ELSE inp.lastCandle.close

(***************************************************************************)
(* evaluateConditions: the booleans, the verdict, the statistics update.   *)
(***************************************************************************)
\* the boolean evaluateConditions assigns to conditions[k]
RuleValue(rs, k, inp) ==
  LET ind == inp.indicators IN
  IF rs = "simplified"
  THEN CASE k = "macd5mPositive" ->
              isGreaterThan(getMACDHistogram(ind.macd5m), Num(0))
         [] k = "ema18Above200_1m" ->
              isGreaterThanWithTolerance(ind.ema1m18, ind.ema1m200)
         [] OTHER ->
              isGreaterThanWithTolerance(closePrice(inp), ind.vwap1m)
  ELSE CASE k = "macd5mPositive" ->
              isGreaterThan(getMACDValue(ind.macd5m), Num(0))
         [] k = "macd1mPositive" ->
              isGreaterThan(getMACDValue(ind.macd1m), Num(0))
         [] k = "ema18Above200_1m" ->
              isGreaterThanWithTolerance(ind.ema1m18, ind.ema1m200)
         [] k = "ema18AboveVwap_1m" ->
              isGreaterThanWithTolerance(ind.ema1m18, ind.vwap1m)
         [] k = "vwapAboveEma200_1m" ->
              isGreaterThanWithTolerance(ind.vwap1m, ind.ema1m200)
         [] k = "closeAboveEma18_1m" ->
              isGreaterThanWithTolerance(closePrice(inp), ind.ema1m18)
         [] OTHER ->
              isGreaterThanWithTolerance(ind.ema5m200, ind.ema5m18)

\* the conditions object after all rules were assigned
Conditions(rs, inp) == [k \in RuleKeys(rs) |-> RuleValue(rs, k, inp)]

\* a count that forgets the filter(Boolean)
CountPassedUnfiltered(conditions) == Cardinality(DOMAIN conditions)

\* Object.values(conditions).filter(Boolean).length
CountPassed(conditions) == Cardinality({k \in DOMAIN conditions : conditions[k]})

\* Object.keys(conditions).length
CountTotal(conditions) == Cardinality(DOMAIN conditions)

\* a list that stops at the first failed rule
RECURSIVE FailedFromFirstOnly(_, _, _, _)
FailedFromFirstOnly(rs, conditions, order, i) ==
  IF i > Len(order) THEN <<>>
  ELSE IF conditions[order[i]]
       THEN FailedFromFirstOnly(rs, conditions, order, i + 1)
       ELSE <<[name |-> conditionNames(rs)[order[i]], condition |-> order[i]]>>

\* failedConditions: one record pushed per false rule, in rule order
RECURSIVE FailedFrom(_, _, _, _)
FailedFrom(rs, conditions, order, i) ==
  IF i > Len(order) THEN <<>>
  ELSE (IF conditions[order[i]]
        THEN <<>>
        ELSE <<[name |-> conditionNames(rs)[order[i]], condition |-> order[i]]>>)
       \o FailedFrom(rs, conditions, order, i + 1)

\* the object evaluateConditions returns (score "P/T" is the pair <<P, T>>)
Verdict(rs, inp) ==
  LET conditions == Conditions(rs, inp)
      passed == CountPassed(conditions)
      total == CountTotal(conditions)
  IN [conditions |-> conditions,
      passedConditions |-> passed,
      totalConditions |-> total,
      allConditionsMet |-> (passed = total),
      failedConditions |-> FailedFrom(rs, conditions, RuleOrder(rs), 1),
      score |-> <<passed, total>>]

(***************************************************************************)
(* RunningStatistics.                                                      *)
(***************************************************************************)
ZeroCount == [passed |-> 0, failed |-> 0]

\* this.statistics as the constructor builds it
ConstructorStatistics(rs) ==
  [totalEvaluations |-> 0, totalPassed |-> 0,
   conditionCounts |-> [k \in RuleKeys(rs) |-> ZeroCount]]

\* this.statistics as resetStatistics rebuilds it: both classes write the
\* seven keys of the full rule set
ResetStatistics(rs) ==
  [totalEvaluations |-> 0, totalPassed |-> 0,
   conditionCounts |-> [k \in RuleKeys("full") |-> ZeroCount]]

\* the forEach of updateStatistics from key i on: conditionCounts[key].passed++
\* or .failed++; a key without an entry raises a TypeError and the loop stops
RECURSIVE CountFrom(_, _, _, _)
CountFrom(counts, conditions, order, i) ==
  IF i > Len(order) THEN [counts |-> counts, threw |-> FALSE]
  ELSE LET k == order[i] IN
       IF k \notin DOMAIN counts THEN [counts |-> counts, threw |-> TRUE]
       ELSE CountFrom(
              [counts EXCEPT ![k] =
                 IF conditions[k]
                 THEN [@ EXCEPT !.passed = @ + 1]
                 ELSE [@ EXCEPT !.failed = @ + 1]],
              conditions, order, i + 1)

\* an update that counts every evaluation as fully passed
updateStatisticsAlwaysPassed(stats, order, conditions, allConditionsMet) ==
  LET r == CountFrom(stats.conditionCounts, conditions, order, 1) IN
  [statistics |->
     [totalEvaluations |-> stats.totalEvaluations + 1,
      totalPassed |-> stats.totalPassed + 1,
      conditionCounts |-> r.counts],
   threw |-> r.threw]

\* updateStatistics(conditions, allConditionsMet)
updateStatistics(stats, order, conditions, allConditionsMet) ==
  LET r == CountFrom(stats.conditionCounts, conditions, order, 1) IN
  [statistics |->
     [totalEvaluations |-> stats.totalEvaluations + 1,
      totalPassed |-> stats.totalPassed + (IF allConditionsMet THEN 1 ELSE 0),
      conditionCounts |-> r.counts],
   threw |-> r.threw]

\* getStatistics() (the percentage strings passRate / failureRate are left out)
getStatistics(stats) ==
  [totalEvaluations |-> stats.totalEvaluations,
   totalPassed |-> stats.totalPassed,
   totalFailed |-> stats.totalEvaluations - stats.totalPassed,
   conditions |-> [k \in DOMAIN stats.conditionCounts |->
                     [passed |-> stats.conditionCounts[k].passed,
                      failed |-> stats.conditionCounts[k].failed,
                      total |-> stats.conditionCounts[k].passed
                                + stats.conditionCounts[k].failed]]]

(***************************************************************************)
(* The calculators.  A float is an exact fraction n / d in lowest terms     *)
(* with d > 0; the null a calculator returns has its own tag.               *)
(***************************************************************************)
RECURSIVE GCD(_, _)
GCD(a, b) == IF b = 0 THEN a ELSE GCD(b, a % b)

Flt(n, d) ==
  LET g == GCD(Abs(n), Abs(d))
      s == IF d < 0 THEN -1 ELSE 1
  IN [t |-> "num", n |-> (s * n) \div g, d |-> (s * d) \div g]
FltNull == [t |-> "null", n |-> 0, d |-> 1]

FAdd(a, b) == Flt(a.n * b.d + b.n * a.d, a.d * b.d)
FSub(a, b) == Flt(a.n * b.d - b.n * a.d, a.d * b.d)
FMul(a, b) == Flt(a.n * b.n, a.d * b.d)
FDiv(a, b) == Flt(a.n * b.d, a.d * b.n)

\* sum += values[i] for i in 0..period-1 (1..period here)
RECURSIVE SumFirst(_, _)
SumFirst(values, k) ==
  IF k = 0 THEN Flt(0, 1) ELSE FAdd(SumFirst(values, k - 1), values[k])

\* a loop that adds the weighted value without decaying the running EMA
RECURSIVE EmaLoopNoDecay(_, _, _, _)
EmaLoopNoDecay(values, multiplier, i, ema) ==
  IF i > Len(values) THEN ema
  ELSE EmaLoopNoDecay(values, multiplier, i + 1,
                      FAdd(FMul(values[i], multiplier), ema))

\* the loop ema = values[i] * multiplier + ema * (1 - multiplier), from the
\* (1-based) index i to the end
RECURSIVE EmaLoop(_, _, _, _)
EmaLoop(values, multiplier, i, ema) ==
  IF i > Len(values) THEN ema
  ELSE EmaLoop(values, multiplier, i + 1,
               FAdd(FMul(values[i], multiplier),
                    FMul(ema, FSub(Flt(1, 1), multiplier))))

\* an EMA that also refuses a sequence of exactly `period` values
calculateManualEMAStrict(values, period) ==
  IF Len(values) = 0 THEN FltNull
  ELSE IF Len(values) <= period THEN FltNull
  ELSE EmaLoop(values, Flt(2, period + 1), period + 1,
               FDiv(SumFirst(values, period), Flt(period, 1)))

\* IndicatorsService.calculateManualEMA(values, period)
calculateManualEMA(values, period) ==
  IF Len(values) = 0 THEN FltNull
  ELSE IF Len(values) < period THEN FltNull
  ELSE EmaLoop(values, Flt(2, period + 1), period + 1,
               FDiv(SumFirst(values, period), Flt(period, 1)))

\* PolygonService.calculateEMA(values, span): initialised with values[0]
calculateEMA(values, span) ==
  IF Len(values) = 0 THEN FltNull
  ELSE IF Len(values) < span THEN FltNull
  ELSE EmaLoop(values, Flt(2, span + 1), 2, values[1])

\* the {macd, signal, histogram} object of calculateManualMACD, or null
MacdResult(m, s, h) == [t |-> "obj", macd |-> m, signal |-> s, histogram |-> h]
MacdResultNull == [t |-> "null", macd |-> FltNull, signal |-> FltNull,
                   histogram |-> FltNull]

\* emaFastValues / emaSlowValues: the EMA of closes.slice(0, i + 1), or null
\* while the slice is shorter than the period
EmaValues(closes, period) ==
  [i \in 1..Len(closes) |->
     IF i >= period THEN calculateManualEMA(SubSeq(closes, 1, i), period)
     ELSE FltNull]

\* macdLineValues
MacdLineValues(closes, fastPeriod, slowPeriod) ==
  LET emaFastValues == EmaValues(closes, fastPeriod)
      emaSlowValues == EmaValues(closes, slowPeriod)
  IN [i \in 1..Len(closes) |->
        IF emaFastValues[i].t # "null" /\ emaSlowValues[i].t # "null"
        THEN FSub(emaFastValues[i], emaSlowValues[i])
        ELSE FltNull]

IsDefined(val) == val.t # "null"

\* a MACD that asks for slowPeriod candles only
calculateManualMACDShort(closes, fastPeriod, slowPeriod, signalPeriod) ==
  IF Len(closes) = 0 THEN MacdResultNull
  ELSE IF Len(closes) < slowPeriod THEN MacdResultNull
  ELSE
    LET macdLineValues == MacdLineValues(closes, fastPeriod, slowPeriod)
        latestMacdLine == macdLineValues[Len(macdLineValues)]
        validMacdValues == SelectSeq(macdLineValues, IsDefined)
        signalLine == calculateManualEMA(validMacdValues, signalPeriod)
    IN IF latestMacdLine.t = "null" THEN MacdResultNull
       ELSE IF Len(validMacdValues) < signalPeriod THEN MacdResultNull
       ELSE IF signalLine.t = "null" THEN MacdResultNull
       ELSE MacdResult(latestMacdLine, signalLine, FSub(latestMacdLine, signalLine))

\* IndicatorsService.calculateManualMACD(closes, fastPeriod, slowPeriod, signalPeriod)
calculateManualMACD(closes, fastPeriod, slowPeriod, signalPeriod) ==
  IF Len(closes) = 0 THEN MacdResultNull
  ELSE IF Len(closes) < slowPeriod + signalPeriod THEN MacdResultNull
  ELSE
    LET macdLineValues == MacdLineValues(closes, fastPeriod, slowPeriod)
        latestMacdLine == macdLineValues[Len(macdLineValues)]
        validMacdValues == SelectSeq(macdLineValues, IsDefined)
        signalLine == calculateManualEMA(validMacdValues, signalPeriod)
    IN IF latestMacdLine.t = "null" THEN MacdResultNull
       ELSE IF Len(validMacdValues) < signalPeriod THEN MacdResultNull
       ELSE IF signalLine.t = "null" THEN MacdResultNull
       ELSE MacdResult(latestMacdLine, signalLine, FSub(latestMacdLine, signalLine))

\* comparisons of floats
FLess(a, b) == a.n * b.d < b.n * a.d
FPositive(a) == a.n > 0

\* a bar as the calculators read it: high, low, close and volume; a volume
\* the provider left out is FltNull
Ohlcv(high, low, close, volume) ==
  [high |-> high, low |-> low, close |-> close, volume |-> volume]

\* the candles argument of a calculator: an array, or a missing argument
Array(items) == [t |-> "array", items |-> items]
Missing == [t |-> "undef", items |-> <<>>]

\* candle.volume || 0
VolumeOrZero(candle) ==
  IF candle.volume.t = "num" /\ candle.volume.n # 0 THEN candle.volume ELSE Flt(0, 1)

\* (candle.high + candle.low + candle.close) / 3
typicalPrice(candle) ==
  FDiv(FAdd(FAdd(candle.high, candle.low), candle.close), Flt(3, 1))

\* a loop that takes a missing volume for one share
RECURSIVE VwapLoopDefaultVolume(_, _, _, _)
VwapLoopDefaultVolume(items, i, totalVolume, totalVWAP) ==
  IF i > Len(items) THEN [totalVolume |-> totalVolume, totalVWAP |-> totalVWAP]
  ELSE LET volume == IF items[i].volume.t = "num" THEN items[i].volume ELSE Flt(1, 1) IN
       IF FPositive(volume)
       THEN VwapLoopDefaultVolume(items, i + 1, FAdd(totalVolume, volume),
                                  FAdd(totalVWAP, FMul(typicalPrice(items[i]), volume)))
       ELSE VwapLoopDefaultVolume(items, i + 1, totalVolume, totalVWAP)

\* a loop that counts the bars instead of adding up their volumes
RECURSIVE VwapLoopByCount(_, _, _, _)
VwapLoopByCount(items, i, totalVolume, totalVWAP) ==
  IF i > Len(items) THEN [totalVolume |-> totalVolume, totalVWAP |-> totalVWAP]
  ELSE LET volume == VolumeOrZero(items[i]) IN
       IF FPositive(volume)
       THEN VwapLoopByCount(items, i + 1, FAdd(totalVolume, Flt(1, 1)),
                            FAdd(totalVWAP, FMul(typicalPrice(items[i]), volume)))
       ELSE VwapLoopByCount(items, i + 1, totalVolume, totalVWAP)

\* for (const candle of candles): bars with volume > 0 add typicalPrice *
\* volume to totalVWAP and volume to totalVolume
RECURSIVE VwapLoop(_, _, _, _)
VwapLoop(items, i, totalVolume, totalVWAP) ==
  IF i > Len(items) THEN [totalVolume |-> totalVolume, totalVWAP |-> totalVWAP]
  ELSE LET volume == VolumeOrZero(items[i]) IN
       IF FPositive(volume)
       THEN VwapLoop(items, i + 1, FAdd(totalVolume, volume),
                     FAdd(totalVWAP, FMul(typicalPrice(items[i]), volume)))
       ELSE VwapLoop(items, i + 1, totalVolume, totalVWAP)

\* IndicatorsService.calculateVWAP(candles)
calculateVWAP(candles) ==
  IF candles.t # "array" \/ Len(candles.items) = 0 THEN FltNull
  ELSE LET sums == VwapLoop(candles.items, 1, Flt(0, 1), Flt(0, 1)) IN
       IF FPositive(sums.totalVolume)
       THEN FDiv(sums.totalVWAP, sums.totalVolume)
       ELSE FltNull

\* the {lod, hod} object of calculateLODHOD
LodHod(lod, hod) == [lod |-> lod, hod |-> hod]

\* for (const candle of candles): the running minimum of low and the running
\* maximum of high
RECURSIVE LodHodLoop(_, _, _, _)
LodHodLoop(items, i, lod, hod) ==
  IF i > Len(items) THEN LodHod(lod, hod)
  ELSE LodHodLoop(items, i + 1,
                  IF FLess(items[i].low, lod) THEN items[i].low ELSE lod,
                  IF FLess(hod, items[i].high) THEN items[i].high ELSE hod)

\* extrema that start from zero instead of the first bar
calculateLODHODFromZero(candles) ==
  IF candles.t # "array" \/ Len(candles.items) = 0 THEN LodHod(FltNull, FltNull)
  ELSE LodHodLoop(candles.items, 1, Flt(0, 1), Flt(0, 1))

\* IndicatorsService.calculateLODHOD(candles)
calculateLODHOD(candles) ==
  IF candles.t # "array" \/ Len(candles.items) = 0 THEN LodHod(FltNull, FltNull)
  ELSE LodHodLoop(candles.items, 1, candles.items[1].low, candles.items[1].high)

(***************************************************************************)
(* State.                                                                  *)
(***************************************************************************)
VARIABLES
  ruleSet,        \* which ConditionsService class the process instantiated
  statistics,     \* conditionsService.statistics
  indicatorData,  \* the argument of the pending / last evaluateConditions call
  lastCall,       \* the last call on the service: operation, outcome, result
  pc,             \* where processAlertNormally stands: idle, validating,
                  \* fetching (awaiting Promise.all), aggregated, done
  currentPrice,   \* alert.close || alert.price || null
  attemptCount,   \* local attemptCount of the acquisition loop
  daysToFetch,    \* local daysToFetch of the acquisition loop
  requests,       \* the provider requests issued for this alert, in order
  response,       \* the API responses of the latest attempt: fine, coarse
  handed,         \* the sequences passed to calculateAllIndicators
  result,         \* what processAlertNormally returned: pending, null, processed
  completed,      \* evaluateConditions calls that returned since the last reset
  firstVerdict,   \* the first verdict a caller got for the bundle it holds
  input,          \* the arguments handed to a calculator or to the aggregator
  calc,           \* the last calculator call: operation, argument, result
  alerts,         \* the processAlert calls of a batch, one record per alert
  batch,          \* the batch loop: idle, running, responded, failed
  expired,        \* whether the caller's deadline for the running
                  \* processAlertNormally call has passed
  endpoint,       \* a GET /api/alerts/processed request: where its loop
                  \* stands, alertsToProcess.length, i, what each processAlert
                  \* call settled to, results, and the response
  realtime,       \* processAlert calls of the onAlert callback in flight
  toplist         \* the ToplistService object and the sockets it created

service == <<ruleSet, statistics, indicatorData, lastCall, completed, firstVerdict>>
pipeline == <<pc, currentPrice, attemptCount, daysToFetch, requests, response,
              handed, result>>
calculator == <<input, calc>>
batchLoop == <<alerts, batch>>
ambient == <<expired, endpoint, realtime, toplist>>
others == <<calculator, batchLoop, ambient>>
vars == <<service, pipeline, calculator, batchLoop, ambient>>

(***************************************************************************)
(* Bounds and the inputs the calls are drawn from.                         *)
(***************************************************************************)
\* evaluateConditions is called while totalEvaluations is below this cap
MaxEvals == 2

NoVerdict == [conditions |-> <<>>, passedConditions |-> 0, totalConditions |-> 0,
              allConditionsMet |-> FALSE, failedConditions |-> <<>>, score |-> <<0, 0>>]

\* an indicatorData argument: the fields evaluateConditions reads
Bundle(m1, m5, e18, e200, vw, f18, f200, price, candle) ==
  [indicators |-> [macd1m |-> m1, macd5m |-> m5, ema1m18 |-> e18, ema1m200 |-> e200,
                   vwap1m |-> vw, ema5m18 |-> f18, ema5m200 |-> f200],
   currentPrice |-> price, lastCandle |-> candle]

NoInput == Bundle(MacdNull, MacdNull, Null, Null, Null, Null, Null, Null, CandleNull)

\* arguments for the 3-rule service; the operands it never reads stay null
SimplifiedInputs ==
  {Bundle(MacdNull, m5, e18, e200, vw, Null, Null, price, candle) :
     m5 \in {MacdNull, MacdUndef, MacdObj(Num(3), Num(2)), MacdObj(Num(3), Num(1)),
             MacdObj(Num(3), Undef), MacdObj(Num(-3), Num(-2))},
     e18 \in {Null, Undef, Num(10000), Num(10002)},
     e200 \in {Null, Num(10000), Num(10001)},
     vw \in {Null, Undef, Num(10000)},
     price \in {Null, Undef, Num(0), Num(10002)},
     candle \in {CandleNull, Candle(Num(10002)), Candle(Num(9000))}}

\* arguments for the 7-rule service
FullInputs ==
  {Bundle(m1, m5, e18, e200, vw, f18, f200, price, candle) :
     m1 \in {MacdNull, MacdObj(Num(3), Num(2)), MacdObj(Num(-3), Num(-2))},
     m5 \in {MacdNull, MacdObj(Num(3), Num(2)), MacdObj(Undef, Num(2))},
     e18 \in {Null, Num(10000), Num(30000)},
     e200 \in {Undef, Num(10000)},
     vw \in {Null, Num(20000)},
     f18 \in {Undef, Num(10000)},
     f200 \in {Null, Num(5000), Num(20000)},
     price \in {Null, Num(0), Num(40000)},
     candle \in {CandleNull, Candle(Num(20000))}}

InputsFor(rs) == IF rs = "simplified" THEN SimplifiedInputs ELSE FullInputs

\* a bundle on which every rule of the rule set is true
SimplifiedPass ==
  Bundle(MacdNull, MacdObj(Num(3), Num(2)), Num(10002), Num(10000), Num(10000),
         Null, Null, Num(10002), Candle(Num(10002)))
FullPass ==
  Bundle(MacdObj(Num(3), Num(2)), MacdObj(Num(3), Num(2)), Num(30000), Num(10000),
         Num(20000), Num(10000), Num(20000), Num(40000), Candle(Num(20000)))

\* the operands in which two bundles differ
Differ(a, b) ==
  {f \in DOMAIN a.indicators : a.indicators[f] # b.indicators[f]}
  \cup (IF a.currentPrice # b.currentPrice THEN {"currentPrice"} ELSE {})
  \cup (IF a.lastCandle # b.lastCandle THEN {"lastCandle"} ELSE {})

\* the arguments of a run of calls: the passing bundle, every bundle that
\* departs from it in one operand, and the bundle with nothing defined
SimplifiedCalls ==
  {b \in SimplifiedInputs : Cardinality(Differ(b, SimplifiedPass)) <= 1} \cup {NoInput}
FullCalls ==
  {b \in FullInputs : Cardinality(Differ(b, FullPass)) <= 1} \cup {NoInput}
CallsFor(rs) == IF rs = "simplified" THEN SimplifiedCalls ELSE FullCalls

(***************************************************************************)
(* The bar provider and the acquisition loop of processAlertNormally.      *)
(* A bar sequence is kept by its counts: how many bars it holds and how    *)
(* many of them lie in the session window 13:30-20:00 UTC.                 *)
(***************************************************************************)
Bars(n, s) == [total |-> n, inSession |-> s]
NoBars == Bars(0, 0)

\* the body of an aggregates response of the API
HttpError == [ok |-> FALSE, status |-> "NONE", results |-> NoBars]
StatusError == [ok |-> TRUE, status |-> "ERROR", results |-> NoBars]
OkResponse(b) == [ok |-> TRUE, status |-> "OK", results |-> b]
NoResponse == <<HttpError, HttpError>>

FineResponses ==
  {HttpError} \cup
  {OkResponse(b) : b \in {Bars(0, 0), Bars(150, 150), Bars(200, 150), Bars(250, 200)}}
CoarseResponses ==
  {StatusError} \cup
  {OkResponse(b) : b \in {Bars(40, 40), Bars(50, 40), Bars(50, 50), Bars(200, 50)}}

\* PolygonService.fetchOHLCV: throws on a failed request, a status other than
\* OK and an empty result list; otherwise returns the bars
fetchOHLCV(resp) ==
  IF ~resp.ok \/ resp.status # "OK" \/ resp.results.total = 0
  THEN [threw |-> TRUE, candles |-> NoBars]
  ELSE [threw |-> FALSE, candles |-> resp.results]

\* a filter that keeps every bar
MarketHoursKeepAll(candles) == candles

\* new Date(candle.timestamp): getUTCHours() * 60 + getUTCMinutes(), the
\* timestamp counted in minutes
utcTimeInMinutes(timestamp) ==
  ((timestamp \div 60) % 24) * 60 + (timestamp % 60)

marketStartUTC == 13 * 60 + 30
marketEndUTC == 20 * 60

\* the filter with the closing minute kept
filterMarketHours1mInclusive(candles) ==
  SelectSeq(candles, LAMBDA candle :
    /\ utcTimeInMinutes(candle) >= marketStartUTC
    /\ utcTimeInMinutes(candle) <= marketEndUTC)

\* candles1m.filter(candle => ...) over bars given by their timestamps
filterMarketHours1m(candles) ==
  SelectSeq(candles, LAMBDA candle :
    /\ utcTimeInMinutes(candle) >= marketStartUTC
    /\ utcTimeInMinutes(candle) < marketEndUTC)

\* candles5m?.filter(candle => ...) || []
filterMarketHours5m(candles) ==
  SelectSeq(candles, LAMBDA candle :
    /\ utcTimeInMinutes(candle) >= marketStartUTC
    /\ utcTimeInMinutes(candle) < marketEndUTC)

\* candles.filter(minute of day in [13:30, 20:00) UTC)
MarketHours(candles) == Bars(candles.inSession, candles.inSession)

maxAttempts == 4
MinCandles1m == 200
MinCandles5m == 50
FirstWindow == 10

\* a widening that skips the 20-day window
NextWindowSkip(days) == IF days = 10 THEN 15 ELSE 30

\* daysToFetch = daysToFetch === 10 ? 15 : daysToFetch === 15 ? 20 : 30
NextWindow(days) == IF days = 10 THEN 15 ELSE IF days = 15 THEN 20 ELSE 30

\* the two requests of one attempt: Promise.all([fetch1MinuteCandles,
\* fetch5MinuteCandles]) over the last `days` days
AttemptRequests(days) ==
  <<[timeframe |-> 1, days |-> days], [timeframe |-> 5, days |-> days]>>

NotHanded == [c1m |-> NoBars, c5m |-> NoBars, given |-> FALSE]
Handed(c1m, c5m) == [c1m |-> c1m, c5m |-> c5m, given |-> TRUE]

\* an EMA over n bars: null below the period, else the given value
EmaOf(n, period, value) == IF n < period THEN Null ELSE value

\* calculateAllIndicators(ticker, candles1m, candles5m): which indicators are
\* defined follows from the lengths; the values depend on the bars, which the
\* counts leave open
calculateAllIndicators(c1m, c5m) ==
  {Bundle(IF c1m.total < 35 THEN MacdNull ELSE m1,
          IF c5m.total < 35 THEN MacdNull ELSE m5,
          EmaOf(c1m.total, 18, Num(30000)),
          EmaOf(c1m.total, 200, Num(10000)),
          vw,
          EmaOf(c5m.total, 18, Num(10000)),
          EmaOf(c5m.total, 200, Num(20000)),
          Null,
          Candle(Num(20000))) :
     m1 \in {MacdObj(Num(3), Num(2))},
     m5 \in {MacdObj(Num(3), Num(2)), MacdObj(Num(-3), Num(-2))},
     vw \in {Null, Num(20000)}}

\* the 15 keys of results.indicators, each with the sequence it is computed
\* from (1 or 5) and the number of bars it needs: the period of an EMA,
\* slowPeriod + signalPeriod = 26 + 9 for a MACD, one bar for lod and hod and
\* for vwap1m (which in addition needs a bar with volume > 0)
IndicatorNeeds ==
  [ema1m12 |-> <<1, 12>>, ema1m18 |-> <<1, 18>>, ema1m20 |-> <<1, 20>>,
   ema1m26 |-> <<1, 26>>, ema1m200 |-> <<1, 200>>,
   ema5m12 |-> <<5, 12>>, ema5m18 |-> <<5, 18>>, ema5m20 |-> <<5, 20>>,
   ema5m26 |-> <<5, 26>>, ema5m200 |-> <<5, 200>>,
   macd1m |-> <<1, 26 + 9>>, macd5m |-> <<5, 26 + 9>>,
   vwap1m |-> <<1, 1>>, lod |-> <<1, 1>>, hod |-> <<1, 1>>]
IndicatorKeys == DOMAIN IndicatorNeeds

\* whether the call computing key k returns a value: each calculator returns
\* null on too few bars and catches its own exceptions
Computed(k, c1m, c5m, traded) ==
  LET n == IF IndicatorNeeds[k][1] = 1 THEN c1m.total ELSE c5m.total IN
  IF n >= IndicatorNeeds[k][2] /\ (k = "vwap1m" => traded) THEN "value" ELSE "null"

\* an aggregator in which the first null indicator ends the call
computeIndicatorsAbortOnNull(c1m, c5m) ==
  {m \in {[k \in IndicatorKeys |-> Computed(k, c1m, c5m, traded)] :
            traded \in BOOLEAN} :
     \A k \in IndicatorKeys : m[k] = "value"}

\* results.indicators of calculateAllIndicators, by which keys hold a value
\* and which hold null; whether a bar was traded is left open by the counts
computeIndicators(c1m, c5m) ==
  {[k \in IndicatorKeys |-> Computed(k, c1m, c5m, traded)] : traded \in BOOLEAN}

\* the prices an alert carries
AlertPrices == {Null, Num(40000)}

PipelineIdle ==
  /\ pc = "idle"
  /\ currentPrice = Null
  /\ attemptCount = 0
  /\ daysToFetch = FirstWindow
  /\ requests = <<>>
  /\ response = NoResponse
  /\ handed = NotHanded
  /\ result = "pending"

(***************************************************************************)
(* Inputs of the calculators and of the aggregator.                        *)
(***************************************************************************)
\* the longest sequence of closes and the largest periods a call is given
MaxLen == 4
MaxPeriod == 3
MaxSignal == 2

\* the closes a sequence is made of
CloseValues == {Flt(1, 1), Flt(3, 1)}

RECURSIVE SeqsUpTo(_, _)
SeqsUpTo(S, n) ==
  IF n = 0 THEN {<<>>}
  ELSE LET shorter == SeqsUpTo(S, n - 1) IN
       shorter \cup {Append(q, x) : q \in {r \in shorter : Len(r) = n - 1}, x \in S}

\* the longest bar sequence a call is given
MaxBars == 3

\* the bars a sequence is made of: <<high, low, close>> of two regular bars
\* and of one whose low exceeds its high (the provider's data is taken as it
\* comes), each with a volume that is missing, zero or positive
CandlePrices == {<<3, 1, 2>>, <<6, 3, 4>>, <<1, 2, 1>>}
CandleVolumes == {FltNull, Flt(0, 1), Flt(1, 1), Flt(2, 1)}
CandleValues ==
  {Ohlcv(Flt(p[1], 1), Flt(p[2], 1), Flt(p[3], 1), v) :
     p \in CandlePrices, v \in CandleVolumes}

\* the operands of a comparator call, in units of EPSILON: missing values,
\* zero, and values on both sides of the relative tolerance of 10000 and of
\* -10000 (one unit)
OperandValues ==
  {Null, Undef} \cup
  {Num(n) : n \in {-10000, -9999, -9998, -1, 0, 1, 2, 10000, 10001, 10002}}

\* evaluation time and the timestamps of the last bars, in minutes
Now == 6000
LastBarTimes1m == {Now - 1, Now - 4, Now - 1469, Now - 1470, Now - 3000}
LastBarTimes5m == {Now - 5, Now - 11, Now - 1470}

CalcInput(values, period, slowPeriod, signalPeriod) ==
  [kind |-> "values", values |-> values, period |-> period,
   slowPeriod |-> slowPeriod, signalPeriod |-> signalPeriod,
   candles1m |-> NoBars, candles5m |-> NoBars, last1m |-> 0, last5m |-> 0,
   candles |-> Missing, a |-> Null, b |-> Null, stamps |-> <<>>]
AggInput(c1m, c5m, t1m, t5m) ==
  [kind |-> "bars", values |-> <<>>, period |-> 1, slowPeriod |-> 1,
   signalPeriod |-> 1, candles1m |-> c1m, candles5m |-> c5m,
   last1m |-> t1m, last5m |-> t5m, candles |-> Missing, a |-> Null, b |-> Null,
   stamps |-> <<>>]
NoCalcInput == AggInput(NoBars, NoBars, 0, 0)
CandleInput(candles) == [NoCalcInput EXCEPT !.kind = "candles", !.candles = candles]
OperandInput(a, b) == [NoCalcInput EXCEPT !.kind = "operands", !.a = a, !.b = b]
StampInput(stamps) == [NoCalcInput EXCEPT !.kind = "stamps", !.stamps = stamps]

CalcInputs ==
  {CalcInput(values, period, slowPeriod, signalPeriod) :
     values \in SeqsUpTo(CloseValues, MaxLen), period \in 1..MaxPeriod,
     slowPeriod \in 1..MaxPeriod, signalPeriod \in 1..MaxSignal}

\* the sequences the pipeline hands over hold at least 200 and 50 bars; a
\* direct caller may pass shorter ones
AggInputs ==
  {AggInput(c1m, c5m, t1m, t5m) :
     c1m \in {Bars(20, 20), Bars(200, 200), Bars(250, 200)},
     c5m \in {Bars(30, 30), Bars(50, 50), Bars(200, 50)},
     t1m \in LastBarTimes1m, t5m \in LastBarTimes5m}

CandleInputs ==
  {CandleInput(Missing)} \cup
  {CandleInput(Array(items)) : items \in SeqsUpTo(CandleValues, MaxBars)}

OperandInputs == {OperandInput(a, b) : a \in OperandValues, b \in OperandValues}

\* bar times in minutes since the epoch: 13:29, 13:30, 19:59 and 20:00 UTC of
\* one day, 13:30 and 20:00 UTC of the next
StampValues ==
  {1440 + 809, 1440 + 810, 1440 + 1199, 1440 + 1200, 2880 + 810, 2880 + 1200}

\* the provider is asked for sort=asc: bars arrive oldest first
RECURSIVE Ascending(_)
Ascending(S) ==
  IF S = {} THEN <<>>
  ELSE LET first == CHOOSE x \in S : \A y \in S : x <= y
       IN  <<first>> \o Ascending(S \ {first})

StampInputs == {StampInput(Ascending(S)) : S \in SUBSET StampValues}

NoAggregate == [outcome |-> "none", candles1m |-> NoBars, candles5m |-> NoBars,
                warnings |-> {}, bundles |-> {}, indicators |-> {}]
NoCalc == [op |-> "none", ema |-> FltNull, macd |-> MacdResultNull,
           arg |-> FltNull, agg |-> NoAggregate, vwap |-> FltNull,
           extrema |-> LodHod(FltNull, FltNull), greater |-> FALSE,
           reverse |-> FALSE, kept1m |-> <<>>, kept5m |-> <<>>]

CalculatorIdle ==
  /\ input = NoCalcInput
  /\ calc = NoCalc

\* what the provider answers to the requests of a batch: a failed request,
\* too few bars, enough bars
BatchFineResponses ==
  {HttpError} \cup {OkResponse(b) : b \in {Bars(150, 150), Bars(250, 200)}}
BatchCoarseResponses == {OkResponse(b) : b \in {Bars(40, 40), Bars(50, 50)}}

\* the price the alerts of a batch carry
BatchPrice == Num(40000)

\* the alerts of one batch, by their index in batch.map(processAlert)
AlertIds == {0, 1}
AlertKinds == {"regular", "valid_example", "forced_valid"}

\* one processAlert call: the alert's kind, the validateNASDAQ argument, where
\* the running processAlertNormally call stands, which call of it this is, its
\* attempt counter and the sequences it handed over, what the last
\* processAlertNormally call settled to, what processAlert settled to, and
\* whether the evaluation was overwritten with the forced one
IdleAlert == [kind |-> "regular", validateNASDAQ |-> FALSE, pc |-> "idle", run |-> 0,
              attemptCount |-> 0, handed |-> NotHanded, normally |-> "pending",
              result |-> "pending", forced |-> FALSE]
BatchIdle ==
  /\ alerts = [i \in AlertIds |-> IdleAlert]
  /\ batch = "idle"

\* GET /api/alerts/processed: the batch size, the largest alertsToProcess a
\* request is given, and the most onAlert calls in flight at once
BATCH_SIZE == 5
MaxAlerts == 6
MaxRealtime == 1

\* the positions of alertsToProcess
AlertSlots == 0..(MaxAlerts - 1)

\* the response of the endpoint: the two lists hold positions of
\* alertsToProcess
Reply(success, valid, filtered, total, processed, skipped) ==
  [success |-> success, valid |-> valid, filtered |-> filtered, total |-> total,
   processed |-> processed, skipped |-> skipped]
NoReply == Reply(FALSE, <<>>, <<>>, 0, 0, 0)

\* no request: each position is "none" (not started), "pending" (in flight)
\* or what its processAlert call settled to: "null", or a result whose
\* evaluation has allConditionsMet true ("met") or false ("unmet")
EndpointIdle ==
  [pc |-> "idle", length |-> 0, i |-> 0, outcome |-> [j \in AlertSlots |-> "none"],
   results |-> <<>>, reply |-> NoReply]

\* ToplistService: the most sockets (new WebSocket) one run creates
MaxSockets == 6

maxReconnectAttempts == 5

\* the object after its constructor.  ws is the state of the socket this.ws
\* refers to ("null": no socket; "closed": a socket that has closed);
\* connecting and open count the sockets that connect() left behind when it
\* overwrote this.ws, closing the sockets disconnect() closed whose close
\* event is still to come; every socket keeps its handlers.  timers counts
\* the pending reconnect timers, promise is the promise of the latest
\* connect() call, hasData is toplistData.length > 0, sockets counts the
\* sockets created, and afterDisconnect holds from a disconnect() that found
\* nothing else outstanding until the next explicit connect
ToplistConstructed ==
  [ws |-> "null", isConnected |-> FALSE, reconnectAttempts |-> 0, timers |-> 0,
   connecting |-> 0, open |-> 0, closing |-> 0, promise |-> "none",
   hasData |-> FALSE, sockets |-> 0, afterDisconnect |-> FALSE]

AmbientIdle ==
  /\ expired = FALSE
  /\ endpoint = EndpointIdle
  /\ realtime = 0
  /\ toplist = ToplistConstructed

(***************************************************************************)
(* Operations of the service.                                              *)
(***************************************************************************)
Constructed ==
  /\ ruleSet \in RuleSets
  /\ statistics = ConstructorStatistics(ruleSet)
  /\ lastCall = [op |-> "constructor", outcome |-> "returned", verdict |-> NoVerdict]
  /\ completed = 0
  /\ firstVerdict = NoVerdict

Init ==
  /\ Constructed
  /\ indicatorData = NoInput
  /\ PipelineIdle
  /\ CalculatorIdle
  /\ BatchIdle
  /\ AmbientIdle

\* evaluateConditions(indicatorData): the verdict is computed, the statistics
\* are updated, and the verdict is returned unless updateStatistics threw
evaluateConditions(inp) ==
  LET v == Verdict(ruleSet, inp)
      u == updateStatistics(statistics, RuleOrder(ruleSet), v.conditions,
                            v.allConditionsMet)
  IN /\ statistics' = u.statistics
     /\ lastCall' = [op |-> "evaluateConditions",
                     outcome |-> IF u.threw THEN "threw" ELSE "returned",
                     verdict |-> IF u.threw THEN NoVerdict ELSE v]
     /\ completed' = IF u.threw THEN completed ELSE completed + 1

\* a caller evaluates a fresh bundle
EvaluateConditions ==
  /\ statistics.totalEvaluations < MaxEvals
  /\ \E inp \in CallsFor(ruleSet) :
       /\ indicatorData' = inp
       /\ evaluateConditions(inp)
  /\ UNCHANGED <<ruleSet, firstVerdict, pipeline, others>>

\* resetStatistics(), reached through POST /api/statistics/reset: a request
\* handler never runs between an await on a settled promise and its continuation
resetStatistics ==
  /\ pc # "aggregated"
  /\ \A i \in AlertIds : alerts[i].pc # "aggregated"
  /\ statistics' = ResetStatistics(ruleSet)
  /\ lastCall' = [op |-> "resetStatistics", outcome |-> "returned", verdict |-> NoVerdict]
  /\ completed' = 0
  /\ UNCHANGED <<ruleSet, indicatorData, firstVerdict, pipeline, others>>

Next == EvaluateConditions \/ resetStatistics

Spec == Init /\ [][Next]_vars

(***************************************************************************)
(* The evaluator as a function of its argument: the caller holds one       *)
(* bundle, drawn from the whole input set, and evaluates it repeatedly.    *)
(***************************************************************************)
InitEval ==
  /\ Constructed
  /\ indicatorData \in InputsFor(ruleSet)
  /\ PipelineIdle
  /\ CalculatorIdle
  /\ BatchIdle
  /\ AmbientIdle

EvaluateHeld ==
  /\ statistics.totalEvaluations < MaxEvals
  /\ evaluateConditions(indicatorData)
  /\ firstVerdict' = IF firstVerdict = NoVerdict /\ lastCall'.outcome = "returned"
                     THEN lastCall'.verdict
                     ELSE firstVerdict
  /\ UNCHANGED <<ruleSet, indicatorData, pipeline, others>>

NextEval == EvaluateHeld \/ resetStatistics

SpecEval == InitEval /\ [][NextEval]_vars

(***************************************************************************)
(* processAlertNormally(alert, validateNASDAQ).                            *)
(***************************************************************************)
\* entry: the locals are initialised; with validateNASDAQ the function first
\* awaits the listing check, otherwise it issues the first attempt's requests
StartAlert ==
  /\ pc \in {"idle", "done"}
  /\ statistics.totalEvaluations < MaxEvals
  /\ \E price \in AlertPrices, validateNASDAQ \in BOOLEAN :
       /\ currentPrice' = price
       /\ pc' = IF validateNASDAQ THEN "validating" ELSE "fetching"
       /\ requests' = IF validateNASDAQ THEN <<>> ELSE AttemptRequests(FirstWindow)
  /\ attemptCount' = 0
  /\ daysToFetch' = FirstWindow
  /\ response' = NoResponse
  /\ handed' = NotHanded
  /\ result' = "pending"
  /\ UNCHANGED <<service, others>>

\* polygonService.validateNASDAQ settles: a rejection returns null
ValidateReturn ==
  /\ pc = "validating"
  /\ \E listed \in BOOLEAN :
       IF listed
       THEN /\ pc' = "fetching"
            /\ requests' = AttemptRequests(daysToFetch)
            /\ result' = result
       ELSE /\ pc' = "done"
            /\ requests' = requests
            /\ result' = "null"
  /\ UNCHANGED <<service, currentPrice, attemptCount, daysToFetch, response, handed,
                 others>>

\* a loop that treats missing data like insufficient data and tries again
NoDataRetry ==
  /\ pc' = "fetching"
  /\ attemptCount' = attemptCount + 1
  /\ daysToFetch' = daysToFetch
  /\ requests' = requests \o AttemptRequests(daysToFetch)
  /\ UNCHANGED <<result, handed, indicatorData>>

\* the data was empty or a request failed: processAlertNormally returns null
\* at once, from the "No data available" return or from the catch block
NoDataReturn ==
  /\ pc' = "done"
  /\ result' = "null"
  /\ UNCHANGED <<attemptCount, daysToFetch, requests, handed, indicatorData>>

\* an end of loop without the sufficiency check on the coarse sequence
AfterLoopFineOnly(c1m, c5m) ==
  IF c1m.total < MinCandles1m
  THEN /\ pc' = "done"
       /\ result' = "null"
       /\ handed' = handed
       /\ indicatorData' = indicatorData
  ELSE /\ pc' = "aggregated"
       /\ result' = result
       /\ handed' = Handed(c1m, c5m)
       /\ \E b \in calculateAllIndicators(c1m, c5m) :
            indicatorData' = [b EXCEPT !.currentPrice = currentPrice]

\* an end of loop without any sufficiency check
AfterLoopPartial(c1m, c5m) ==
  /\ pc' = "aggregated"
  /\ result' = result
  /\ handed' = Handed(c1m, c5m)
  /\ \E b \in calculateAllIndicators(c1m, c5m) :
       indicatorData' = [b EXCEPT !.currentPrice = currentPrice]

\* the check after the loop, then the call of calculateAllIndicators
AfterLoop(c1m, c5m) ==
  IF c1m.total < MinCandles1m \/ c5m.total < MinCandles5m
  THEN /\ pc' = "done"
       /\ result' = "null"
       /\ handed' = handed
       /\ indicatorData' = indicatorData
  ELSE /\ pc' = "aggregated"
       /\ result' = result
       /\ handed' = Handed(c1m, c5m)
       /\ \E b \in calculateAllIndicators(c1m, c5m) :
            indicatorData' = [b EXCEPT !.currentPrice = currentPrice]

\* Promise.all settles: one pass through the body of the while loop, up to
\* the next await or return
FetchReturn ==
  /\ pc = "fetching"
  /\ \E r1 \in FineResponses, r5 \in CoarseResponses :
       LET f1 == fetchOHLCV(r1)
           f5 == fetchOHLCV(r5)
           candles1m == f1.candles
           candles5m == f5.candles
           marketHoursCandles1m == MarketHours(candles1m)
           marketHoursCandles5m == MarketHours(candles5m)
       IN
       /\ response' = <<r1, r5>>
       /\ IF f1.threw \/ f5.threw \/ candles1m.total = 0
          THEN NoDataReturn
          ELSE IF /\ marketHoursCandles1m.total >= MinCandles1m
                  /\ marketHoursCandles5m.total >= MinCandles5m
          THEN /\ AfterLoop(marketHoursCandles1m, marketHoursCandles5m)
               /\ UNCHANGED <<attemptCount, daysToFetch, requests>>
          ELSE IF candles1m.total >= MinCandles1m /\ attemptCount = maxAttempts - 1
          THEN /\ AfterLoop(candles1m, candles5m)
               /\ UNCHANGED <<attemptCount, daysToFetch, requests>>
          ELSE /\ daysToFetch' = NextWindow(daysToFetch)
               /\ attemptCount' = attemptCount + 1
               /\ IF attemptCount + 1 < maxAttempts
                  THEN /\ pc' = "fetching"
                       /\ requests' = requests \o AttemptRequests(NextWindow(daysToFetch))
                       /\ UNCHANGED <<result, handed, indicatorData>>
                  ELSE /\ AfterLoop(candles1m, candles5m)
                       /\ requests' = requests
  /\ UNCHANGED <<ruleSet, statistics, lastCall, completed, firstVerdict,
                 currentPrice, others>>

\* the await of calculateAllIndicators resumes: evaluateConditions is called;
\* an exception lands in the catch block, which returns null
Evaluate ==
  /\ pc = "aggregated"
  /\ evaluateConditions(indicatorData)
  /\ pc' = "done"
  /\ result' = IF lastCall'.outcome = "threw" THEN "null" ELSE "processed"
  /\ UNCHANGED <<ruleSet, indicatorData, firstVerdict, currentPrice, attemptCount,
                 daysToFetch, requests, response, handed, others>>

NextAcq == StartAlert \/ ValidateReturn \/ FetchReturn \/ Evaluate \/ resetStatistics

SpecAcq == Init /\ [][NextAcq]_vars

(***************************************************************************)
(* processAlertNormally under a caller that has a deadline.  The function   *)
(* takes (alert, validateNASDAQ) only; the deadline passes on the caller's  *)
(* clock while the call is acquiring.  Calls are followed up to the first   *)
(* deadline that passes.                                                    *)
(***************************************************************************)
Acquiring == pc \in {"validating", "fetching"}

\* a caller whose deadline lies ahead calls processAlertNormally
CallWithDeadline ==
  /\ expired = FALSE
  /\ StartAlert

\* the caller's deadline passes during acquisition
DeadlinePasses ==
  /\ Acquiring
  /\ expired = FALSE
  /\ expired' = TRUE
  /\ UNCHANGED <<service, pipeline, calculator, batchLoop, endpoint, realtime, toplist>>

NextDeadline ==
  \/ CallWithDeadline
  \/ ValidateReturn
  \/ FetchReturn
  \/ Evaluate
  \/ DeadlinePasses

SpecDeadline == Init /\ [][NextDeadline]_vars

(***************************************************************************)
(* The advisory checks of calculateAllIndicators.  Times are in minutes.   *)
(***************************************************************************)
maxStaleHours == 24
maxAllowedDiff == 1

\* Math.round((now - lastTime) / (1000 * 60 * 60))
hoursSince(now, lastTime) == (now - lastTime + 30) \div 60

\* normalizeToTimeframe(timestamp, timeframeMinutes): the minutes of the hour
\* are floored to a multiple of the timeframe
normalizeToTimeframe(timestamp, timeframeMinutes) ==
  LET minutes == timestamp % 60
      flooredMinutes == (minutes \div timeframeMinutes) * timeframeMinutes
  IN timestamp - minutes + flooredMinutes

\* what a check leaves behind: the two sequences and what it logged
Checked(c1m, c5m, warnings, threw) ==
  [candles1m |-> c1m, candles5m |-> c5m, warnings |-> warnings, threw |-> threw]

\* a freshness check that refuses stale data
validateDataFreshnessBlocking(c1m, c5m, last1m, last5m, now) ==
  IF c1m.total = 0 \/ c5m.total = 0
  THEN Checked(c1m, c5m, {"cannot validate freshness"}, FALSE)
  ELSE Checked(c1m, c5m, {},
               hoursSince(now, last1m) > maxStaleHours
               \/ hoursSince(now, last5m) > maxStaleHours)

\* validateDataFreshness(ticker, candles1m, candles5m)
validateDataFreshness(c1m, c5m, last1m, last5m, now) ==
  IF c1m.total = 0 \/ c5m.total = 0
  THEN Checked(c1m, c5m, {"cannot validate freshness"}, FALSE)
  ELSE Checked(c1m, c5m,
               (IF hoursSince(now, last1m) > maxStaleHours
                THEN {"1m candle data is stale"} ELSE {})
               \cup (IF hoursSince(now, last5m) > maxStaleHours
                     THEN {"5m candle data is stale"} ELSE {}),
               FALSE)

\* verifyTimeAlignment(candles1m, candles5m)
verifyTimeAlignment(c1m, c5m, last1m, last5m) ==
  IF c1m.total = 0 \/ c5m.total = 0
  THEN Checked(c1m, c5m, {"cannot verify alignment"}, FALSE)
  ELSE LET normalized1mTime == normalizeToTimeframe(last1m, 5)
           normalized5mTime == normalizeToTimeframe(last5m, 5)
           timeDiff == Abs(normalized1mTime - normalized5mTime)
       IN Checked(c1m, c5m,
                  IF timeDiff > maxAllowedDiff
                  THEN {"time alignment issue"} ELSE {},
                  FALSE)

(***************************************************************************)
(* Calls of the calculators and of the aggregator on given arguments.      *)
(***************************************************************************)
InitCalc ==
  /\ Constructed
  /\ indicatorData = NoInput
  /\ PipelineIdle
  /\ BatchIdle
  /\ AmbientIdle
  /\ input \in CalcInputs \cup AggInputs \cup CandleInputs \cup OperandInputs
               \cup StampInputs
  /\ calc = NoCalc

\* indicatorsService.calculateManualEMA(values, period)
CalculateManualEMA ==
  /\ input.kind = "values"
  /\ calc' = [NoCalc EXCEPT !.op = "calculateManualEMA",
                            !.ema = calculateManualEMA(input.values, input.period)]
  /\ UNCHANGED <<service, pipeline, input, batchLoop, ambient>>

\* polygonService.calculateEMA(values, span)
CalculateEMA ==
  /\ input.kind = "values"
  /\ calc' = [NoCalc EXCEPT !.op = "calculateEMA",
                            !.ema = calculateEMA(input.values, input.period)]
  /\ UNCHANGED <<service, pipeline, input, batchLoop, ambient>>

\* indicatorsService.calculateManualMACD(closes, fast, slow, signal)
CalculateManualMACD ==
  /\ input.kind = "values"
  /\ calc' = [NoCalc EXCEPT !.op = "calculateManualMACD",
                            !.macd = calculateManualMACD(input.values, input.period,
                                                         input.slowPeriod,
                                                         input.signalPeriod)]
  /\ UNCHANGED <<service, pipeline, input, batchLoop, ambient>>

\* a caller appends the current EMA to the values and computes the EMA again
AppendEMA ==
  /\ input.kind = "values"
  /\ Len(input.values) <= MaxLen
  /\ LET v == calculateManualEMA(input.values, input.period) IN
     /\ v.t = "num"
     /\ input' = [input EXCEPT !.values = Append(@, v)]
     /\ calc' = [NoCalc EXCEPT !.op = "appendEMA", !.arg = v,
                               !.ema = calculateManualEMA(Append(input.values, v),
                                                          input.period)]
  /\ UNCHANGED <<service, pipeline, batchLoop, ambient>>

\* calculateAllIndicators with its two checks, which run first and outside
\* the try block: the sequences as the checks leave them, what was logged,
\* and the bundles the indicator calls can return for those sequences
AllIndicators(c1m, c5m, last1m, last5m, now) ==
  LET f == validateDataFreshness(c1m, c5m, last1m, last5m, now)
      a == verifyTimeAlignment(f.candles1m, f.candles5m, last1m, last5m)
  IN IF f.threw \/ a.threw
     THEN [NoAggregate EXCEPT !.outcome = "threw"]
     ELSE [outcome |-> "returned",
           candles1m |-> a.candles1m,
           candles5m |-> a.candles5m,
           warnings |-> f.warnings \cup a.warnings,
           bundles |-> calculateAllIndicators(a.candles1m, a.candles5m),
           indicators |-> computeIndicators(a.candles1m, a.candles5m)]

\* indicatorsService.calculateAllIndicators(ticker, candles1m, candles5m)
CalculateAllIndicators ==
  /\ input.kind = "bars"
  /\ calc' = [NoCalc EXCEPT
                !.op = "calculateAllIndicators",
                !.agg = AllIndicators(input.candles1m, input.candles5m,
                                      input.last1m, input.last5m, Now)]
  /\ UNCHANGED <<service, pipeline, input, batchLoop, ambient>>

\* indicatorsService.calculateVWAP(candles)
CalculateVWAP ==
  /\ input.kind = "candles"
  /\ calc' = [NoCalc EXCEPT !.op = "calculateVWAP",
                            !.vwap = calculateVWAP(input.candles)]
  /\ UNCHANGED <<service, pipeline, input, batchLoop, ambient>>

\* indicatorsService.calculateLODHOD(candles)
CalculateLODHOD ==
  /\ input.kind = "candles"
  /\ calc' = [NoCalc EXCEPT !.op = "calculateLODHOD",
                            !.extrema = calculateLODHOD(input.candles)]
  /\ UNCHANGED <<service, pipeline, input, batchLoop, ambient>>

\* conditionsService.isGreaterThan(a, b)
IsGreaterThan ==
  /\ input.kind = "operands"
  /\ calc' = [NoCalc EXCEPT !.op = "isGreaterThan",
                            !.greater = isGreaterThan(input.a, input.b)]
  /\ UNCHANGED <<service, pipeline, input, batchLoop, ambient>>

\* conditionsService.isGreaterThanWithTolerance(a, b), and the same call
\* with the operands exchanged
IsGreaterThanWithTolerance ==
  /\ input.kind = "operands"
  /\ calc' = [NoCalc EXCEPT !.op = "isGreaterThanWithTolerance",
                            !.greater = isGreaterThanWithTolerance(input.a, input.b),
                            !.reverse = isGreaterThanWithTolerance(input.b, input.a)]
  /\ UNCHANGED <<service, pipeline, input, batchLoop, ambient>>

\* one attempt of the acquisition loop: both sequences as fetched are
\* filtered to the session
FilterMarketHours ==
  /\ input.kind = "stamps"
  /\ calc' = [NoCalc EXCEPT !.op = "marketHours",
                            !.kept1m = filterMarketHours1m(input.stamps),
                            !.kept5m = filterMarketHours5m(input.stamps)]
  /\ UNCHANGED <<service, pipeline, input, batchLoop, ambient>>

\* the next attempt: the widened range is fetched anew (it starts a day
\* earlier, at 13:30 or at 20:00 UTC) and what was fetched is filtered
WidenAndFilter ==
  /\ input.kind = "stamps"
  /\ calc.op = "marketHours"
  /\ \A n \in 1..Len(input.stamps) : input.stamps[n] >= 1440
  /\ \E older \in {810, 1200} :
       LET candles == <<older>> \o input.stamps
       IN  /\ input' = [input EXCEPT !.stamps = candles]
           /\ calc' = [NoCalc EXCEPT !.op = "marketHours",
                                     !.kept1m = filterMarketHours1m(candles),
                                     !.kept5m = filterMarketHours5m(candles)]
  /\ UNCHANGED <<service, pipeline, batchLoop, ambient>>

NextCalc ==
  \/ FilterMarketHours
  \/ WidenAndFilter
  \/ CalculateVWAP
  \/ CalculateLODHOD
  \/ IsGreaterThan
  \/ IsGreaterThanWithTolerance
  \/ CalculateManualEMA
  \/ CalculateEMA
  \/ CalculateManualMACD
  \/ AppendEMA
  \/ CalculateAllIndicators

SpecCalc == InitCalc /\ [][NextCalc]_vars

(***************************************************************************)
(* processAlert and the batch loop of GET /api/alerts/processed: the       *)
(* processAlert calls of a batch run concurrently, each one step at a time *)
(* from one await to the next.                                             *)
(***************************************************************************)
\* processAlertNormally is entered: up to its first await
EnterNormally(a) ==
  [a EXCEPT !.pc = IF a.validateNASDAQ THEN "validating" ELSE "fetching",
            !.run = a.run + 1,
            !.attemptCount = 0,
            !.handed = NotHanded,
            !.normally = "pending"]

\* processAlert(alert, validateNASDAQ) up to its first await
EnterProcessAlert(kind, validateNASDAQ) ==
  LET a == [IdleAlert EXCEPT !.kind = kind, !.validateNASDAQ = validateNASDAQ] IN
  IF kind = "valid_example"
  THEN [a EXCEPT !.pc = "done", !.result = "processed"]
  ELSE EnterNormally(a)

\* a processAlertNormally without its catch block
NormallyUncaught(threw, value) == IF threw THEN "rejected" ELSE value

\* what processAlertNormally settles to: its catch block turns every
\* exception into null
Normally(threw, value) == IF threw THEN "null" ELSE value

\* processAlert resumes after await processAlertNormally(...): a forced alert
\* with a result gets the forced evaluation; a forced alert without a result
\* falls through to the second processAlertNormally call; the catch block
\* turns a rejection into null
ResumeProcessAlert(a, outcome) ==
  LET settled == [a EXCEPT !.pc = "done", !.normally = outcome,
                           !.attemptCount = 0, !.handed = NotHanded] IN
  IF outcome = "rejected" THEN [settled EXCEPT !.result = "null"]
  ELSE IF a.kind = "forced_valid" /\ a.run = 1
  THEN IF outcome = "processed"
       THEN [settled EXCEPT !.result = "processed", !.forced = TRUE]
       ELSE EnterNormally([a EXCEPT !.normally = outcome])
  ELSE [settled EXCEPT !.result = outcome]

\* the check after the loop of processAlertNormally
AfterLoopOf(a, c1m, c5m) ==
  IF c1m.total < MinCandles1m \/ c5m.total < MinCandles5m
  THEN ResumeProcessAlert(a, Normally(FALSE, "null"))
  ELSE [a EXCEPT !.pc = "aggregated", !.handed = Handed(c1m, c5m)]

\* one pass through the loop body of processAlertNormally for one alert
LoopBodyOf(a, r1, r5) ==
  LET f1 == fetchOHLCV(r1)
      f5 == fetchOHLCV(r5)
      candles1m == f1.candles
      candles5m == f5.candles
      marketHoursCandles1m == MarketHours(candles1m)
      marketHoursCandles5m == MarketHours(candles5m)
  IN IF f1.threw \/ f5.threw
     THEN ResumeProcessAlert(a, Normally(TRUE, "null"))
     ELSE IF candles1m.total = 0
     THEN ResumeProcessAlert(a, Normally(FALSE, "null"))
     ELSE IF /\ marketHoursCandles1m.total >= MinCandles1m
             /\ marketHoursCandles5m.total >= MinCandles5m
     THEN AfterLoopOf(a, marketHoursCandles1m, marketHoursCandles5m)
     ELSE IF candles1m.total >= MinCandles1m /\ a.attemptCount = maxAttempts - 1
     THEN AfterLoopOf(a, candles1m, candles5m)
     ELSE IF a.attemptCount + 1 < maxAttempts
     THEN [a EXCEPT !.attemptCount = a.attemptCount + 1]
     ELSE AfterLoopOf([a EXCEPT !.attemptCount = a.attemptCount + 1],
                      candles1m, candles5m)

\* GET /api/alerts/processed: batch.map(processAlert) calls processAlert with
\* (alert, index), so validateNASDAQ is the index: falsy for the first alert
StartBatch ==
  /\ batch \in {"idle", "responded", "failed"}
  /\ statistics.totalEvaluations < MaxEvals
  /\ batch' = "running"
  /\ \E kinds \in [AlertIds -> AlertKinds] :
       alerts' = [i \in AlertIds |-> EnterProcessAlert(kinds[i], i # 0)]
  /\ UNCHANGED <<service, pipeline, calculator, ambient>>

\* polygonService.validateNASDAQ settles for alert i
AlertValidateReturn(i) ==
  /\ alerts[i].pc = "validating"
  /\ \E listed \in BOOLEAN :
       alerts' = [alerts EXCEPT ![i] =
                    IF listed THEN [@ EXCEPT !.pc = "fetching"]
                    ELSE ResumeProcessAlert(@, Normally(FALSE, "null"))]
  /\ UNCHANGED <<service, pipeline, calculator, batch, ambient>>

\* the Promise.all of alert i's two requests settles
AlertFetchReturn(i) ==
  /\ alerts[i].pc = "fetching"
  /\ \E r1 \in BatchFineResponses, r5 \in BatchCoarseResponses :
       alerts' = [alerts EXCEPT ![i] = LoopBodyOf(@, r1, r5)]
  /\ UNCHANGED <<service, pipeline, calculator, batch, ambient>>

\* alert i resumes after await calculateAllIndicators and calls
\* evaluateConditions; an exception lands in the catch block
AlertEvaluate(i) ==
  /\ alerts[i].pc = "aggregated"
  /\ \E b \in calculateAllIndicators(alerts[i].handed.c1m, alerts[i].handed.c5m) :
       /\ indicatorData' = [b EXCEPT !.currentPrice = BatchPrice]
       /\ evaluateConditions(indicatorData')
  /\ alerts' = [alerts EXCEPT ![i] =
                  ResumeProcessAlert(@, Normally(lastCall'.outcome = "threw",
                                                 "processed"))]
  /\ UNCHANGED <<ruleSet, firstVerdict, pipeline, calculator, batch, ambient>>

\* Promise.all(batch.map(processAlert)) settles: it rejects when a
\* processAlert call rejected, otherwise the null results are filtered out
BatchSettle ==
  /\ batch = "running"
  /\ \A i \in AlertIds : alerts[i].result # "pending"
  /\ batch' = IF \E i \in AlertIds : alerts[i].result = "rejected"
              THEN "failed" ELSE "responded"
  /\ UNCHANGED <<service, pipeline, calculator, alerts, ambient>>

NextBatch ==
  \/ StartBatch
  \/ \E i \in AlertIds : AlertValidateReturn(i)
  \/ \E i \in AlertIds : AlertFetchReturn(i)
  \/ \E i \in AlertIds : AlertEvaluate(i)
  \/ BatchSettle
  \/ resetStatistics

SpecBatch == Init /\ [][NextBatch]_vars

(***************************************************************************)
(* The loop of GET /api/alerts/processed over all of alertsToProcess, and  *)
(* the onAlert callback.  A processAlert call is taken by what it settles  *)
(* to.                                                                     *)
(***************************************************************************)
\* alertsToProcess.slice(i, i + BATCH_SIZE), as positions
batchOf(i, length) == {j \in AlertSlots : i <= j /\ j < i + BATCH_SIZE /\ j < length}

\* batch.map(processAlert): the calls of the batch are started
startBatch(e, i) ==
  [e EXCEPT !.pc = "batch", !.i = i,
            !.outcome = [j \in AlertSlots |->
                           IF j \in batchOf(i, e.length) THEN "pending" ELSE @[j]]]

\* a push without the filter on null
RECURSIVE pushResultsUnfiltered(_, _, _, _)
pushResultsUnfiltered(results, outcome, j, end) ==
  IF j >= end THEN results
  ELSE pushResultsUnfiltered(Append(results, j), outcome, j + 1, end)

\* results.push(...batchResults.filter(result => result !== null)) for the
\* batch at positions j .. end - 1
RECURSIVE pushResults(_, _, _, _)
pushResults(results, outcome, j, end) ==
  IF j >= end THEN results
  ELSE pushResults(IF outcome[j] # "null" THEN Append(results, j) ELSE results,
                   outcome, j + 1, end)

\* the response after the loop
respond(length, results, outcome) ==
  LET allConditionsMet(j) == outcome[j] = "met"
      notAllConditionsMet(j) == outcome[j] # "met"
  IN Reply(TRUE, SelectSeq(results, allConditionsMet),
           SelectSeq(results, notAllConditionsMet),
           Len(results), Len(results), length - Len(results))

\* the request arrives: the alerts are fetched (a failure is answered with
\* status 500), an empty list is answered at once, otherwise the first batch
\* is started
ProcessedRequest ==
  /\ endpoint.pc \in {"idle", "responded", "failed"}
  /\ \E fetched \in BOOLEAN, length \in 0..MaxAlerts :
       endpoint' =
         IF ~fetched THEN [EndpointIdle EXCEPT !.pc = "failed"]
         ELSE IF length = 0
         THEN [EndpointIdle EXCEPT !.pc = "responded",
                                   !.reply = Reply(TRUE, <<>>, <<>>, 0, 0, 0)]
         ELSE startBatch([EndpointIdle EXCEPT !.length = length], 0)
  /\ UNCHANGED <<service, pipeline, calculator, batchLoop, expired, realtime, toplist>>

\* the processAlert call of position j settles
PipelineSettles(j) ==
  /\ endpoint.outcome[j] = "pending"
  /\ \E o \in {"null", "met", "unmet"} :
       endpoint' = [endpoint EXCEPT !.outcome[j] = o]
  /\ UNCHANGED <<service, pipeline, calculator, batchLoop, expired, realtime, toplist>>

\* Promise.all of the batch resolves: the results are pushed, then either the
\* pacing delay is awaited or the loop ends and the response is sent
BatchDone ==
  /\ endpoint.pc = "batch"
  /\ \A j \in batchOf(endpoint.i, endpoint.length) : endpoint.outcome[j] # "pending"
  /\ LET end == IF endpoint.i + BATCH_SIZE < endpoint.length
                THEN endpoint.i + BATCH_SIZE ELSE endpoint.length
         results == pushResults(endpoint.results, endpoint.outcome, endpoint.i, end)
     IN endpoint' =
          IF endpoint.i + BATCH_SIZE < endpoint.length
          THEN [endpoint EXCEPT !.pc = "delay", !.results = results]
          ELSE [endpoint EXCEPT !.pc = "responded", !.results = results,
                                !.reply = respond(endpoint.length, results,
                                                  endpoint.outcome)]
  /\ UNCHANGED <<service, pipeline, calculator, batchLoop, expired, realtime, toplist>>

\* the timer of the pacing delay fires: i += BATCH_SIZE, the next batch starts
DelayElapsed ==
  /\ endpoint.pc = "delay"
  /\ endpoint' = startBatch(endpoint, endpoint.i + BATCH_SIZE)
  /\ UNCHANGED <<service, pipeline, calculator, batchLoop, expired, realtime, toplist>>

\* chartsWatcherService delivers an alert: the callback calls processAlert
OnAlert ==
  /\ realtime < MaxRealtime
  /\ realtime' = realtime + 1
  /\ UNCHANGED <<service, pipeline, calculator, batchLoop, expired, endpoint, toplist>>

\* a processAlert call of the callback settles
OnAlertSettles ==
  /\ realtime > 0
  /\ realtime' = realtime - 1
  /\ UNCHANGED <<service, pipeline, calculator, batchLoop, expired, endpoint, toplist>>

NextEndpoint ==
  \/ ProcessedRequest
  \/ \E j \in AlertSlots : PipelineSettles(j)
  \/ BatchDone
  \/ DelayElapsed
  \/ OnAlert
  \/ OnAlertSettles

SpecEndpoint == Init /\ [][NextEndpoint]_vars

(***************************************************************************)
(* ToplistService.  Calls and socket events run to completion one at a     *)
(* time.  ws.send changes no field of the service.                         *)
(***************************************************************************)
\* a handleReconnect that lets one attempt more through
handleReconnectOneMore(t) ==
  IF t.reconnectAttempts > maxReconnectAttempts THEN t
  ELSE [t EXCEPT !.reconnectAttempts = @ + 1, !.timers = @ + 1]

\* handleReconnect(): give up, or count the attempt and set the timer
handleReconnect(t) ==
  IF t.reconnectAttempts >= maxReconnectAttempts THEN t
  ELSE [t EXCEPT !.reconnectAttempts = @ + 1, !.timers = @ + 1]

\* connect(), up to the return of the promise: this.ws = new WebSocket(wsUrl);
\* the socket this.ws referred to is neither closed nor stripped of handlers
connect(t) ==
  [t EXCEPT !.ws = "connecting",
            !.connecting = IF t.ws = "connecting" THEN @ + 1 ELSE @,
            !.open = IF t.ws = "open" THEN @ + 1 ELSE @,
            !.promise = "pending",
            !.sockets = @ + 1]

\* ws.on('open', ...)
onOpen(t) == [t EXCEPT !.isConnected = TRUE, !.reconnectAttempts = 0]

\* ws.on('close', ...)
onClose(t) == handleReconnect([t EXCEPT !.isConnected = FALSE])

\* toplistService.connect() called from outside (server start)
Connect ==
  /\ toplist.sockets < MaxSockets
  /\ toplist' = [connect(toplist) EXCEPT !.afterDisconnect = FALSE]
  /\ UNCHANGED <<service, pipeline, calculator, batchLoop, expired, endpoint, realtime>>

\* fetchToplistData(), up to its await: with rows stored or a connection up
\* it changes nothing; otherwise it calls connect()
FetchToplistData ==
  /\ toplist.sockets < MaxSockets
  /\ ~toplist.hasData
  /\ ~toplist.isConnected
  /\ toplist' = [connect(toplist) EXCEPT !.afterDisconnect = FALSE]
  /\ UNCHANGED <<service, pipeline, calculator, batchLoop, expired, endpoint, realtime>>

\* the socket this.ws refers to opens; the promise of its connect() resolves
\* unless it was rejected before
WsOpen ==
  /\ toplist.ws = "connecting"
  /\ toplist' = [onOpen(toplist) EXCEPT
                   !.ws = "open",
                   !.promise = IF @ = "pending" THEN "resolved" ELSE @]
  /\ UNCHANGED <<service, pipeline, calculator, batchLoop, expired, endpoint, realtime>>

\* an earlier socket, still connecting when connect() replaced it, opens
EarlierOpen ==
  /\ toplist.connecting > 0
  /\ toplist' = [onOpen(toplist) EXCEPT !.connecting = @ - 1, !.open = @ + 1]
  /\ UNCHANGED <<service, pipeline, calculator, batchLoop, expired, endpoint, realtime>>

\* the socket this.ws refers to fails or is closed by the peer: 'error'
\* rejects the promise of a connecting socket, then 'close' is emitted
WsClose ==
  /\ toplist.ws \in {"connecting", "open"}
  /\ toplist' = [onClose(toplist) EXCEPT
                   !.ws = "closed",
                   !.promise = IF @ = "pending" THEN "rejected" ELSE @]
  /\ UNCHANGED <<service, pipeline, calculator, batchLoop, expired, endpoint, realtime>>

\* an earlier socket fails or is closed by the peer
EarlierClose ==
  /\ \E state \in {"connecting", "open"} :
       /\ toplist[state] > 0
       /\ toplist' = [onClose(toplist) EXCEPT ![state] = @ - 1]
  /\ UNCHANGED <<service, pipeline, calculator, batchLoop, expired, endpoint, realtime>>

\* the 'close' event of a socket that disconnect() closed
ClosedByDisconnect ==
  /\ toplist.closing > 0
  /\ toplist' = [onClose(toplist) EXCEPT !.closing = @ - 1]
  /\ UNCHANGED <<service, pipeline, calculator, batchLoop, expired, endpoint, realtime>>

\* the reconnect timer of handleReconnect fires: this.connect()
ReconnectTimer ==
  /\ toplist.timers > 0
  /\ toplist.sockets < MaxSockets
  /\ toplist' = [connect(toplist) EXCEPT !.timers = @ - 1]
  /\ UNCHANGED <<service, pipeline, calculator, batchLoop, expired, endpoint, realtime>>

\* the 10-second timer of the latest connect(): reject if not connected
ConnectTimeout ==
  /\ toplist.promise = "pending"
  /\ ~toplist.isConnected
  /\ toplist' = [toplist EXCEPT !.promise = "rejected"]
  /\ UNCHANGED <<service, pipeline, calculator, batchLoop, expired, endpoint, realtime>>

\* a ToplistUpdate message for the config arrives on an open socket:
\* toplistData = message.rows || []
ToplistUpdate ==
  /\ toplist.ws = "open" \/ toplist.open > 0
  /\ \E rows \in BOOLEAN : toplist' = [toplist EXCEPT !.hasData = rows]
  /\ UNCHANGED <<service, pipeline, calculator, batchLoop, expired, endpoint, realtime>>

\* disconnect(): with a socket in this.ws, close it, forget it, and clear
\* isConnected
Disconnect ==
  /\ toplist.ws # "null"
  /\ toplist' = [toplist EXCEPT
       !.ws = "null",
       !.isConnected = FALSE,
       !.closing = IF toplist.ws \in {"connecting", "open"} THEN @ + 1 ELSE @,
       !.afterDisconnect = /\ toplist.timers = 0
                           /\ toplist.connecting = 0
                           /\ toplist.open = 0
                           /\ toplist.closing = 0]
  /\ UNCHANGED <<service, pipeline, calculator, batchLoop, expired, endpoint, realtime>>

NextToplist ==
  \/ Connect
  \/ FetchToplistData
  \/ WsOpen
  \/ EarlierOpen
  \/ WsClose
  \/ EarlierClose
  \/ ClosedByDisconnect
  \/ ReconnectTimer
  \/ ConnectTimeout
  \/ ToplistUpdate
  \/ Disconnect

SpecToplist == Init /\ [][NextToplist]_vars

(***************************************************************************)
(* Properties of the verdict.                                              *)
(***************************************************************************)
Returned == lastCall.op = "evaluateConditions" /\ lastCall.outcome = "returned"

\* C1: a returned verdict has passedConditions equal to the number of rule
\* keys whose condition is true, totalConditions equal to the size of the
\* rule set (3 or 7), and allConditionsMet iff the two are equal.
C1_VerdictCounts ==
  Returned =>
    LET v == lastCall.verdict IN
    /\ DOMAIN v.conditions = RuleKeys(ruleSet)
    /\ v.passedConditions = Cardinality({k \in RuleKeys(ruleSet) : v.conditions[k]})
    /\ v.totalConditions = Len(RuleOrder(ruleSet))
    /\ v.totalConditions = (IF ruleSet = "simplified" THEN 3 ELSE 7)
    /\ v.allConditionsMet = (v.passedConditions = v.totalConditions)

\* a verdict of the 7-rule service with some rules true and some false
C1_Witness ==
  /\ Returned
  /\ ruleSet = "full"
  /\ lastCall.verdict.passedConditions > 0
  /\ lastCall.verdict.passedConditions < lastCall.verdict.totalConditions

\* the reference price of the price rule is missing: no currentPrice and no
\* lastCandle.close
PriceMissing(inp) ==
  /\ IsNullish(inp.currentPrice)
  /\ (inp.lastCandle.t # "obj" \/ IsNullish(inp.lastCandle.close))

\* the MACD object, or the field of it the rule set reads, is missing
MacdMissing(rs, m) ==
  \/ m.t # "obj"
  \/ IsNullish(IF rs = "simplified" THEN m.histogram ELSE m.macd)

\* rule k reads an operand that is null or missing in inp
OperandMissing(rs, k, inp) ==
  LET ind == inp.indicators IN
  CASE k = "macd5mPositive" -> MacdMissing(rs, ind.macd5m)
    [] k = "macd1mPositive" -> MacdMissing(rs, ind.macd1m)
    [] k = "ema18Above200_1m" -> IsNullish(ind.ema1m18) \/ IsNullish(ind.ema1m200)
    [] k = "priceAboveVwap" -> PriceMissing(inp) \/ IsNullish(ind.vwap1m)
    [] k = "ema18AboveVwap_1m" -> IsNullish(ind.ema1m18) \/ IsNullish(ind.vwap1m)
    [] k = "vwapAboveEma200_1m" -> IsNullish(ind.vwap1m) \/ IsNullish(ind.ema1m200)
    [] k = "closeAboveEma18_1m" -> PriceMissing(inp) \/ IsNullish(ind.ema1m18)
    [] OTHER -> IsNullish(ind.ema5m200) \/ IsNullish(ind.ema5m18)

\* C2: when a rule reads a null or missing operand, evaluateConditions does
\* not throw, the rule is false, and it is not counted in passedConditions.
C2_MissingOperandIsFalse ==
  lastCall.op = "evaluateConditions" =>
    \A k \in RuleKeys(ruleSet) :
      OperandMissing(ruleSet, k, indicatorData) =>
        /\ lastCall.outcome = "returned"
        /\ lastCall.verdict.conditions[k] = FALSE
        /\ lastCall.verdict.passedConditions
             <= Cardinality({j \in RuleKeys(ruleSet) :
                               ~OperandMissing(ruleSet, j, indicatorData)})

\* C11: two evaluateConditions calls with the same indicators, lastCandle and
\* currentPrice return the same conditions, passedConditions, totalConditions,
\* allConditionsMet, failedConditions and score, whatever evaluations and
\* resets happened in between.
C11_SameInputSameVerdict ==
  (lastCall.op = "evaluateConditions" /\ firstVerdict # NoVerdict) =>
    /\ lastCall.outcome = "returned"
    /\ lastCall.verdict.conditions = firstVerdict.conditions
    /\ lastCall.verdict.passedConditions = firstVerdict.passedConditions
    /\ lastCall.verdict.totalConditions = firstVerdict.totalConditions
    /\ lastCall.verdict.allConditionsMet = firstVerdict.allConditionsMet
    /\ lastCall.verdict.failedConditions = firstVerdict.failedConditions
    /\ lastCall.verdict.score = firstVerdict.score

\* the position of rule key k in the declared order of the rule set
RulePosition(rs, k) == CHOOSE i \in 1..Len(RuleOrder(rs)) : RuleOrder(rs)[i] = k

\* C31: failedConditions of a returned verdict holds exactly one record for
\* every rule whose boolean is false and none for a rule that is true, in the
\* declared rule order, each record's condition field naming the rule's key;
\* its length is totalConditions - passedConditions.
C31_FailedConditionsExact ==
  Returned =>
    LET v == lastCall.verdict
        f == v.failedConditions
    IN /\ \A n \in 1..Len(f) :
            /\ f[n].condition \in RuleKeys(ruleSet)
            /\ v.conditions[f[n].condition] = FALSE
            /\ f[n].name = conditionNames(ruleSet)[f[n].condition]
       /\ \A k \in RuleKeys(ruleSet) :
            Cardinality({n \in 1..Len(f) : f[n].condition = k})
              = (IF v.conditions[k] THEN 0 ELSE 1)
       /\ \A n, m \in 1..Len(f) :
            n < m => RulePosition(ruleSet, f[n].condition)
                       < RulePosition(ruleSet, f[m].condition)
       /\ Len(f) = v.totalConditions - v.passedConditions

\* a verdict of the 7-rule service with failed rules on both sides of a rule
\* that passed
C31_Witness ==
  /\ Returned
  /\ ruleSet = "full"
  /\ Len(lastCall.verdict.failedConditions) >= 2
  /\ \E k \in RuleKeys(ruleSet) :
       /\ lastCall.verdict.conditions[k]
       /\ RulePosition(ruleSet, lastCall.verdict.failedConditions[1].condition)
            < RulePosition(ruleSet, k)
       /\ RulePosition(ruleSet, k)
            < RulePosition(ruleSet,
                 lastCall.verdict.failedConditions[
                   Len(lastCall.verdict.failedConditions)].condition)

\* the field of macd5m the rule set declares for macd5mPositive
DeclaredField(rs, m) ==
  IF m.t # "obj" THEN Undef
  ELSE IF rs = "simplified" THEN m.histogram ELSE m.macd

\* C16: macd5mPositive is decided from macd5m.histogram by the 3-rule set and
\* from macd5m.macd by the 7-rule set; when macd5m lacks that field the rule
\* is false, whatever the other field holds.
C16_DeclaredMacdField ==
  Returned =>
    LET field == DeclaredField(ruleSet, indicatorData.indicators.macd5m)
        rule == lastCall.verdict.conditions["macd5mPositive"]
    IN /\ IsNullish(field) => ~rule
       /\ rule => (field.t = "num" /\ field.v > 0)
       /\ (field.t = "num" /\ field.v > EPSILON) => rule

\* a 3-rule verdict for a macd5m with a positive macd and no histogram
C16_Witness ==
  /\ Returned
  /\ ruleSet = "simplified"
  /\ indicatorData.indicators.macd5m = MacdObj(Num(3), Undef)
  /\ ~lastCall.verdict.conditions["macd5mPositive"]

(***************************************************************************)
(* Properties of the acquisition loop.                                     *)
(***************************************************************************)
\* the step in which Promise.all settles and the loop body runs
FetchReturned == pc = "fetching" /\ (pc' # "fetching" \/ attemptCount' # attemptCount)

\* the API answered the request with at least one bar
Delivered(r) == r.ok /\ r.status = "OK" /\ r.results.total > 0

\* the bars of a sequence that lie in the session window
SessionOnly(b) == Bars(b.inSession, b.inSession)

\* the session-filtered acceptance test of the claims
SessionSufficient(fine, coarse) == fine.inSession >= 200 /\ coarse.inSession >= 50

\* C3: on an attempt whose session-filtered fine count is >= 200 and whose
\* session-filtered coarse count is >= 50, acquisition stops (no further
\* provider request) and the aggregator receives exactly the session-filtered
\* sequences of that attempt.
C3_SessionAcceptance ==
  [][/\ (/\ FetchReturned
         /\ Delivered(response'[1]) /\ Delivered(response'[2])
         /\ SessionSufficient(response'[1].results, response'[2].results))
        => /\ pc' = "aggregated"
           /\ requests' = requests
           /\ handed' = Handed(SessionOnly(response'[1].results),
                               SessionOnly(response'[2].results))
     /\ pc = "aggregated" => requests' = requests
    ]_vars

\* accepted on the second attempt, with bars outside the session dropped
C3_Witness ==
  /\ pc = "aggregated"
  /\ attemptCount = 1
  /\ SessionSufficient(response[1].results, response[2].results)
  /\ response[1].results.total > response[1].results.inSession
  /\ handed.c1m = SessionOnly(response[1].results)

\* the final attempt: session test failed, unfiltered fine count >= 200
FinalFallback ==
  /\ FetchReturned
  /\ attemptCount = 3
  /\ Delivered(response'[1]) /\ Delivered(response'[2])
  /\ ~SessionSufficient(response'[1].results, response'[2].results)
  /\ response'[1].results.total >= 200

\* C4 as stated: on the final attempt the unfiltered fine count >= 200 alone
\* makes acquisition succeed with the unfiltered sequences.
C4_FallbackFineOnly ==
  [][FinalFallback =>
       /\ pc' = "aggregated"
       /\ handed' = Handed(response'[1].results, response'[2].results)
    ]_vars

\* C4 amended: on the final attempt, with the session test failed and the
\* unfiltered fine count >= 200, acquisition succeeds with the unfiltered
\* sequences iff the unfiltered coarse count is >= 50; otherwise it returns null.
C4_FallbackNeedsCoarse ==
  [][FinalFallback =>
       IF response'[2].results.total >= 50
       THEN /\ pc' = "aggregated"
            /\ handed' = Handed(response'[1].results, response'[2].results)
       ELSE /\ pc' = "done"
            /\ result' = "null"
            /\ handed' = NotHanded
    ]_vars

\* the fallback handed over sequences that hold bars outside the session
C4_Witness ==
  /\ pc = "aggregated"
  /\ attemptCount = 3
  /\ ~SessionSufficient(response[1].results, response[2].results)
  /\ handed = Handed(response[1].results, response[2].results)
  /\ handed.c1m.total > handed.c1m.inSession

\* C5: at most 4 attempts; attempt k requests 10, 15, 20, 30 days; each
\* attempt issues exactly one fine and one coarse request; never a 5th.
C5_AttemptSchedule ==
  /\ attemptCount <= 4
  /\ Len(requests) <= 8
  /\ Len(requests) % 2 = 0
  /\ pc = "fetching" => Len(requests) = 2 * (attemptCount + 1)
  /\ \A i \in 1..Len(requests) :
       requests[i] = [timeframe |-> IF i % 2 = 1 THEN 1 ELSE 5,
                      days |-> <<10, 15, 20, 30>>[(i + 1) \div 2]]

\* all four attempts were made
C5_Witness == Len(requests) = 8 /\ pc = "done"

\* C6: an empty fine sequence ends the pipeline at once with null: no further
\* attempt, no indicators computed, statistics unchanged.
C6_EmptyFineFails ==
  [][(/\ FetchReturned
      /\ response'[1].ok /\ response'[1].status = "OK"
      /\ response'[1].results.total = 0)
       => /\ pc' = "done"
          /\ result' = "null"
          /\ requests' = requests
          /\ handed' = NotHanded
          /\ statistics' = statistics
          /\ lastCall' = lastCall
    ]_vars

\* the fine sequence came back empty on the second attempt
C6_Witness ==
  /\ pc = "done"
  /\ result = "null"
  /\ Len(requests) = 4
  /\ response[1].ok /\ response[1].status = "OK" /\ response[1].results.total = 0

\* C7: when the 4th attempt also fails the session test and its unfiltered
\* fine count is below 200, the pipeline returns null: no bundle is produced,
\* evaluateConditions is not called, statistics unchanged.
C7_ExhaustedFails ==
  [][(/\ FetchReturned
      /\ attemptCount = 3
      /\ Delivered(response'[1]) /\ Delivered(response'[2])
      /\ ~SessionSufficient(response'[1].results, response'[2].results)
      /\ response'[1].results.total < 200)
       => /\ pc' = "done"
          /\ result' = "null"
          /\ Len(requests') = 8
          /\ handed' = NotHanded
          /\ statistics' = statistics
          /\ lastCall' = lastCall
    ]_vars

\* four attempts of 150 bars each, then null
C7_Witness ==
  /\ pc = "done"
  /\ result = "null"
  /\ Len(requests) = 8
  /\ attemptCount = 4
  /\ response[1].results.total = 150

(***************************************************************************)
(* Properties of the statistics.                                           *)
(***************************************************************************)
\* C8: a completed evaluateConditions call adds 1 to totalEvaluations, adds 1
\* to totalPassed iff allConditionsMet, and for every rule key adds 1 to
\* exactly one of passed / failed: passed iff the rule's boolean is true.
C8_EvaluationCounted ==
  [][(lastCall'.op = "evaluateConditions" /\ lastCall'.outcome = "returned") =>
       LET v == lastCall'.verdict
           old == statistics.conditionCounts
           new == statistics'.conditionCounts
       IN /\ statistics'.totalEvaluations = statistics.totalEvaluations + 1
          /\ statistics'.totalPassed =
               statistics.totalPassed + (IF v.allConditionsMet THEN 1 ELSE 0)
          /\ \A k \in RuleKeys(ruleSet) :
               /\ k \in DOMAIN old /\ k \in DOMAIN new
               /\ IF v.conditions[k]
                  THEN new[k].passed = old[k].passed + 1 /\ new[k].failed = old[k].failed
                  ELSE new[k].failed = old[k].failed + 1 /\ new[k].passed = old[k].passed
    ]_vars

\* two completed evaluations, one fully passed and one not
C8_Witness ==
  /\ Returned
  /\ statistics.totalEvaluations = 2
  /\ statistics.totalPassed = 1

\* C9: after resetStatistics, getStatistics reports zero totals and, for
\* every rule key the constructor tracks, an entry with passed = failed = 0.
C9_ResetZeroes ==
  lastCall.op = "resetStatistics" =>
    LET g == getStatistics(statistics) IN
    /\ g.totalEvaluations = 0
    /\ g.totalPassed = 0
    /\ g.totalFailed = 0
    /\ \A k \in DOMAIN ConstructorStatistics(ruleSet).conditionCounts :
         /\ k \in DOMAIN g.conditions
         /\ g.conditions[k].passed = 0
         /\ g.conditions[k].failed = 0

\* C10: between calls, every rule key of the active rule set has
\* passed + failed = totalEvaluations, and totalPassed <= totalEvaluations.
C10_CountsAddUp ==
  /\ \A k \in RuleKeys(ruleSet) :
       /\ k \in DOMAIN statistics.conditionCounts
       /\ statistics.conditionCounts[k].passed + statistics.conditionCounts[k].failed
            = statistics.totalEvaluations
  /\ statistics.totalPassed <= statistics.totalEvaluations

\* C32: evaluateConditions returns a verdict in every statistics state that
\* evaluateConditions and resetStatistics calls can reach, the first
\* evaluation after a reset included, and an evaluation never leaves the
\* statistics partially updated: a call that does not return a verdict
\* leaves them as they were.
C32_EvaluationNeverThrows ==
  /\ [](lastCall.op = "evaluateConditions" => lastCall.outcome = "returned")
  /\ [][(lastCall'.op = "evaluateConditions" /\ lastCall'.outcome # "returned")
          => statistics' = statistics]_vars

(***************************************************************************)
(* Properties of concurrent pipelines and of failures.                     *)
(***************************************************************************)
\* C12: with several alert pipelines interleaved, no statistics update is
\* lost or half-applied: once N evaluations have completed since the last
\* reset, totalEvaluations = N and each rule's passed + failed = N.
C12_UpdatesIndivisible ==
  /\ statistics.totalEvaluations = completed
  /\ \A k \in RuleKeys(ruleSet) :
       /\ k \in DOMAIN statistics.conditionCounts
       /\ statistics.conditionCounts[k].passed + statistics.conditionCounts[k].failed
            = completed

\* the API answered the request with a transport or API error
ProviderFailed(r) == ~r.ok \/ r.status # "OK"

\* C13: a transport/API error of the bar provider during acquisition reaches
\* the caller of the pipeline as an error outcome, distinct from the null of
\* "no data" and of "acquisition exhausted".
C13_ProviderErrorPropagated ==
  [][(/\ FetchReturned
      /\ ProviderFailed(response'[1]) \/ ProviderFailed(response'[2]))
       => result' \notin {"pending", "null", "processed"}
    ]_vars

\* C14: processAlert never rejects: every call settles to a processed result
\* or to null (and so does every processAlertNormally call inside it), the
\* batch never fails, and the step in which one alert settles to null leaves
\* every other alert of the batch as it was, free to go on.
C14_NeverRejects ==
  /\ [](/\ \A i \in AlertIds :
             /\ alerts[i].normally \in {"pending", "null", "processed"}
             /\ alerts[i].result \in {"pending", "null", "processed"}
             /\ alerts[i].pc = "done" => alerts[i].result \in {"null", "processed"}
        /\ batch # "failed")
  /\ [][\A i \in AlertIds, j \in AlertIds :
          (i # j /\ batch = "running"
           /\ alerts[i].result = "pending" /\ alerts'[i].result = "null")
            => alerts'[j] = alerts[j]
       ]_vars

\* a batch answered with one alert skipped after a provider failure or
\* insufficient data and the other alert processed
C14_Witness ==
  /\ batch = "responded"
  /\ alerts[0].result = "null"
  /\ alerts[0].kind = "regular"
  /\ alerts[1].result = "processed"
  /\ alerts[1].kind = "regular"

(***************************************************************************)
(* Properties of the aggregator and of the calculators.                    *)
(***************************************************************************)
\* C15: whatever the timestamps of the last bars (stale, misaligned or both),
\* the freshness and alignment checks leave both sequences unchanged and
\* calculateAllIndicators returns a bundle, the same as for the same bars
\* with fresh, aligned timestamps.
C15_ChecksAdvisory ==
  calc.op = "calculateAllIndicators" =>
    LET fresh == AllIndicators(input.candles1m, input.candles5m,
                               Now - 1, Now - 5, Now)
    IN /\ fresh.outcome = "returned"
       /\ fresh.warnings = {}
       /\ calc.agg.outcome = "returned"
       /\ calc.agg.candles1m = input.candles1m
       /\ calc.agg.candles5m = input.candles5m
       /\ calc.agg.bundles # {}
       /\ calc.agg.bundles = fresh.bundles

\* the last bars were both stale and misaligned, and a bundle was returned
C15_Witness ==
  /\ calc.op = "calculateAllIndicators"
  /\ calc.agg.outcome = "returned"
  /\ "1m candle data is stale" \in calc.agg.warnings
  /\ "5m candle data is stale" \notin calc.agg.warnings
  /\ "time alignment issue" \in calc.agg.warnings

\* C17: calculateManualEMA returns null when values is empty or shorter than
\* the period, and a defined finite number otherwise.
C17_EmaDefinedness ==
  calc.op = "calculateManualEMA" =>
    IF Len(input.values) = 0 \/ Len(input.values) < input.period
    THEN calc.ema.t = "null"
    ELSE calc.ema.t = "num" /\ calc.ema.d > 0

\* an EMA over exactly `period` values, more than one
C17_Witness ==
  /\ calc.op = "calculateManualEMA"
  /\ input.period > 1
  /\ Len(input.values) = input.period
  /\ calc.ema.t = "num"

\* the reference: the mean of the first `period` values, then
\* ema = value * a + ema * (1 - a) with a = 2 / (period + 1), up to the k-th value
RECURSIVE SeededSmaEma(_, _, _)
SeededSmaEma(values, period, k) ==
  IF k = period
  THEN FDiv(SumFirst(values, period), Flt(period, 1))
  ELSE FAdd(FMul(values[k], Flt(2, period + 1)),
            FMul(SeededSmaEma(values, period, k - 1), Flt(period - 1, period + 1)))

\* C18: every EMA of the program is the seeded-SMA EMA: on every input with
\* len(values) >= period, IndicatorsService.calculateManualEMA and
\* PolygonService.calculateEMA both return the value of the reference.
C18_SeededSmaEverywhere ==
  (/\ calc.op \in {"calculateManualEMA", "calculateEMA"}
   /\ Len(input.values) >= input.period)
    => calc.ema = SeededSmaEma(input.values, input.period, Len(input.values))

\* C19: if v = ema(values, period) with len(values) >= period, then
\* ema(values ++ [v], period) = v.
C19_EmaFixedPoint ==
  calc.op = "appendEMA" =>
    /\ calc.arg.t = "num"
    /\ input.values[Len(input.values)] = calc.arg
    /\ calc.ema = calc.arg

\* the appended EMA was a proper fraction of a sequence longer than the period
C19_Witness ==
  /\ calc.op = "appendEMA"
  /\ calc.arg.d > 1
  /\ Len(input.values) > input.period + 1
  /\ calc.ema = calc.arg

\* the MACD line where it is defined: from index max(fast, slow) on
DefinedMacdLine(closes, fastPeriod, slowPeriod) ==
  LET lo == IF fastPeriod > slowPeriod THEN fastPeriod ELSE slowPeriod IN
  [j \in 1..(Len(closes) - lo + 1) |->
     FSub(calculateManualEMA(SubSeq(closes, 1, lo + j - 1), fastPeriod),
          calculateManualEMA(SubSeq(closes, 1, lo + j - 1), slowPeriod))]

\* what a non-null MACD result holds
MacdResultSound(r, closes, fastPeriod, slowPeriod, signalPeriod) ==
  LET line == DefinedMacdLine(closes, fastPeriod, slowPeriod) IN
  /\ r.histogram = FSub(r.macd, r.signal)
  /\ Len(line) > 0
  /\ r.macd = line[Len(line)]
  /\ r.signal = calculateManualEMA(line, signalPeriod)

\* C20 as stated: for all closes and all fast, slow, signal the result is
\* null iff len(closes) < slow + signal; a result has histogram = macd -
\* signal, macd the last MACD-line value and signal the EMA over the defined
\* MACD-line values.
C20_MacdNullIffShort ==
  calc.op = "calculateManualMACD" =>
    /\ (calc.macd.t = "null") <=> (Len(input.values) < input.slowPeriod + input.signalPeriod)
    /\ calc.macd.t # "null" =>
         MacdResultSound(calc.macd, input.values, input.period, input.slowPeriod,
                         input.signalPeriod)

\* C20 amended: the result is null iff len(closes) < max(slow, fast - 1) +
\* signal, which is slow + signal whenever fast <= slow + 1; a result has
\* histogram = macd - signal, macd the last MACD-line value and signal the
\* EMA over the defined MACD-line values.
C20_MacdNullIffTooShort ==
  calc.op = "calculateManualMACD" =>
    LET need == (IF input.period - 1 > input.slowPeriod
                 THEN input.period - 1 ELSE input.slowPeriod) + input.signalPeriod
    IN /\ (calc.macd.t = "null") <=> (Len(input.values) < need)
       /\ (input.period <= input.slowPeriod + 1) =>
            need = input.slowPeriod + input.signalPeriod
       /\ calc.macd.t # "null" =>
            MacdResultSound(calc.macd, input.values, input.period, input.slowPeriod,
                            input.signalPeriod)

\* a result for the shortest sequence that yields one when fast > slow + 1
C20_Witness ==
  /\ calc.op = "calculateManualMACD"
  /\ input.period > input.slowPeriod + 1
  /\ Len(input.values) = input.period - 1 + input.signalPeriod
  /\ calc.macd.t = "obj"
  /\ calc.macd.histogram.n # 0

(***************************************************************************)
(* Properties of the volume-weighted price, the comparators and the        *)
(* session extrema.                                                        *)
(***************************************************************************)
HasVolume(candle) == candle.volume.t = "num" /\ candle.volume.n > 0

\* sums over the bars of a sequence: typicalPrice * volume, volume,
\* typicalPrice
RECURSIVE SumWeightedPrice(_)
SumWeightedPrice(items) ==
  IF Len(items) = 0 THEN Flt(0, 1)
  ELSE FAdd(FMul(typicalPrice(Head(items)), Head(items).volume),
            SumWeightedPrice(Tail(items)))

RECURSIVE SumVolume(_)
SumVolume(items) ==
  IF Len(items) = 0 THEN Flt(0, 1)
  ELSE FAdd(Head(items).volume, SumVolume(Tail(items)))

RECURSIVE SumTypicalPrice(_)
SumTypicalPrice(items) ==
  IF Len(items) = 0 THEN Flt(0, 1)
  ELSE FAdd(typicalPrice(Head(items)), SumTypicalPrice(Tail(items)))

VwapCalled == calc.op = "calculateVWAP"

\* C21: calculateVWAP returns null iff the sequence is empty or missing or no
\* bar has volume > 0; otherwise it returns sum(typicalPrice * volume) /
\* sum(volume) over exactly the bars with volume > 0, so the result is the
\* one of the sequence with the zero-volume bars removed.
C21_VwapOverTradedBars ==
  VwapCalled =>
    LET traded == SelectSeq(input.candles.items, HasVolume) IN
    /\ (calc.vwap = FltNull) <=> (Len(traded) = 0)
    /\ Len(traded) > 0 =>
         calc.vwap = FDiv(SumWeightedPrice(traded), SumVolume(traded))
    /\ calc.vwap = calculateVWAP(Array(traded))

\* a sequence with a traded bar, an untraded bar and a bar without volume
C21_Witness ==
  /\ VwapCalled
  /\ calc.vwap # FltNull
  /\ \E i, j, k \in 1..Len(input.candles.items) :
       /\ HasVolume(input.candles.items[i])
       /\ input.candles.items[j].volume = Flt(0, 1)
       /\ input.candles.items[k].volume = FltNull

\* every bar of the sequence has the same volume field
UniformVolume(items) ==
  \A i, j \in 1..Len(items) : items[i].volume = items[j].volume

MeanTypicalPrice(items) == FDiv(SumTypicalPrice(items), Flt(Len(items), 1))

\* C22 as stated: for every non-empty sequence whose bars all have the same
\* volume, calculateVWAP is the unweighted mean of the typical prices.
C22_UniformVolumeMean ==
  (VwapCalled /\ Len(input.candles.items) > 0
              /\ UniformVolume(input.candles.items)) =>
    calc.vwap = MeanTypicalPrice(input.candles.items)

\* C22: for every non-empty sequence whose bars all have the same positive
\* volume, calculateVWAP is the unweighted mean of the typical prices.
C22_UniformPositiveVolumeMean ==
  (VwapCalled /\ Len(input.candles.items) > 0
              /\ UniformVolume(input.candles.items)
              /\ HasVolume(input.candles.items[1])) =>
    calc.vwap = MeanTypicalPrice(input.candles.items)

\* two bars of volume 2 with different typical prices
C22_Witness ==
  /\ VwapCalled
  /\ Len(input.candles.items) >= 2
  /\ UniformVolume(input.candles.items)
  /\ input.candles.items[1].volume = Flt(2, 1)
  /\ typicalPrice(input.candles.items[1]) # typicalPrice(input.candles.items[2])

\* C23: isGreaterThan(a, b) with the default epsilon is true iff both operands
\* are defined and a - b > epsilon: false for a = b, false when an operand is
\* null or undefined, true for a = b + 2 * epsilon.
C23_StrictComparator ==
  calc.op = "isGreaterThan" =>
    LET a == input.a
        b == input.b
    IN /\ calc.greater <=> (a.t = "num" /\ b.t = "num" /\ a.v - b.v > EPSILON)
       /\ (a.t # "num" \/ b.t # "num") => ~calc.greater
       /\ (a.t = "num" /\ b.t = "num" /\ a.v = b.v) => ~calc.greater
       /\ (a.t = "num" /\ b.t = "num" /\ a.v = b.v + 2 * EPSILON) => calc.greater

\* the call with a = b + 2 * epsilon
C23_Witness ==
  /\ calc.op = "isGreaterThan"
  /\ input.a.t = "num" /\ input.b.t = "num"
  /\ input.a.v = input.b.v + 2 * EPSILON
  /\ calc.greater

\* C24: isGreaterThanWithTolerance(a, b, p) is true iff both operands are
\* defined and a - b > |b| * p, hence false whenever a - b <= |b| * p, also
\* for b = 0 with a <= 0 and for negative b; and it is never true for both
\* (a, b) and (b, a).
C24_TolerantComparator ==
  calc.op = "isGreaterThanWithTolerance" =>
    LET a == input.a
        b == input.b
    IN /\ calc.greater <=>
            (a.t = "num" /\ b.t = "num"
             /\ (a.v - b.v) * ToleranceDenominator > Abs(b.v))
       /\ (a.t = "num" /\ b.t = "num" /\ b.v = 0 /\ a.v <= 0) => ~calc.greater
       /\ ~(calc.greater /\ calc.reverse)

\* a negative b with a exactly at the tolerance: a - b = |b| * p
C24_Witness ==
  /\ calc.op = "isGreaterThanWithTolerance"
  /\ input.a.t = "num" /\ input.b.t = "num"
  /\ input.b.v < 0
  /\ (input.a.v - input.b.v) * ToleranceDenominator = Abs(input.b.v)
  /\ ~calc.greater

\* C25: calculateLODHOD returns the minimum of low and the maximum of high
\* over all bars of a non-empty sequence, {lod: null, hod: null} for an empty
\* or missing one, and lod <= hod when every bar has low <= high.
C25_SessionExtrema ==
  calc.op = "calculateLODHOD" =>
    LET items == input.candles.items
        lod == calc.extrema.lod
        hod == calc.extrema.hod
    IN IF Len(items) = 0
       THEN lod = FltNull /\ hod = FltNull
       ELSE /\ \E i \in 1..Len(items) : lod = items[i].low
            /\ \A i \in 1..Len(items) : ~FLess(items[i].low, lod)
            /\ \E i \in 1..Len(items) : hod = items[i].high
            /\ \A i \in 1..Len(items) : ~FLess(hod, items[i].high)
            /\ (\A i \in 1..Len(items) : ~FLess(items[i].high, items[i].low))
                 => ~FLess(hod, lod)

\* regular bars, the low of a later bar below the low of the first
C25_Witness ==
  /\ calc.op = "calculateLODHOD"
  /\ Len(input.candles.items) >= 2
  /\ \A i \in 1..Len(input.candles.items) :
       ~FLess(input.candles.items[i].high, input.candles.items[i].low)
  /\ FLess(calc.extrema.lod, input.candles.items[1].low)
  /\ calc.extrema.hod = input.candles.items[1].high

(***************************************************************************)
(* Properties of the processed-alerts endpoint.                            *)
(***************************************************************************)
\* the processAlert calls in flight in the process
InFlight ==
  Cardinality({j \in AlertSlots : endpoint.outcome[j] = "pending"}) + realtime

\* C26: at any moment at most BATCH_SIZE pipelines are in flight in the
\* process, counting the batch endpoint and the onAlert callback, and the
\* pipelines of the endpoint in flight all belong to the current batch, which
\* starts only when the loop is in its batch phase.
C26_AtMostBatchSizeInFlight ==
  /\ InFlight <= BATCH_SIZE
  /\ \A j \in AlertSlots :
       endpoint.outcome[j] = "pending" =>
         endpoint.pc = "batch" /\ j \in batchOf(endpoint.i, endpoint.length)

Responded == endpoint.pc = "responded"

\* C30: in the response every alert with a non-null result is in exactly one
\* of valid and filtered, in valid iff its evaluation has allConditionsMet;
\* no other alert is in either list; total = processed = |valid| + |filtered|
\* and skipped = submitted alerts - processed.
C30_ResponsePartition ==
  Responded =>
    LET r == endpoint.reply
        inValid(j) == \E n \in 1..Len(r.valid) : r.valid[n] = j
        inFiltered(j) == \E n \in 1..Len(r.filtered) : r.filtered[n] = j
        submitted == {j \in AlertSlots : j < endpoint.length}
    IN /\ \A j \in submitted :
            /\ endpoint.outcome[j] \in {"null", "met", "unmet"}
            /\ inValid(j) <=> endpoint.outcome[j] = "met"
            /\ inFiltered(j) <=> endpoint.outcome[j] = "unmet"
       /\ \A j \in AlertSlots \ submitted : ~inValid(j) /\ ~inFiltered(j)
       /\ \A n, k \in 1..Len(r.valid) : r.valid[n] = r.valid[k] => n = k
       /\ \A n, k \in 1..Len(r.filtered) : r.filtered[n] = r.filtered[k] => n = k
       /\ r.total = r.processed
       /\ r.processed = Len(r.valid) + Len(r.filtered)
       /\ r.skipped = endpoint.length - r.processed

\* a response after two batches with a valid, a filtered and a skipped alert
C30_Witness ==
  /\ Responded
  /\ endpoint.length > BATCH_SIZE
  /\ Len(endpoint.reply.valid) > 0
  /\ Len(endpoint.reply.filtered) > 0
  /\ endpoint.reply.skipped > 0
  /\ endpoint.outcome[endpoint.length - 1] = "met"

(***************************************************************************)
(* Properties of the deadline, of the bundle and of sufficiency.          *)
(***************************************************************************)
\* C27: once the caller's deadline has passed during acquisition, no further
\* attempt is started (no request is issued) and the call ends as an
\* acquisition failure: it hands nothing to the aggregator and returns null.
C27_DeadlineBoundsAcquisition ==
  [][(expired /\ Acquiring) =>
       /\ requests' = requests
       /\ pc' = "done"
       /\ result' = "null"]_vars

\* key k has the bars it needs in its own sequence
EnoughBars(k, c1m, c5m) ==
  IF IndicatorNeeds[k][1] = 1 THEN c1m.total >= IndicatorNeeds[k][2]
  ELSE c5m.total >= IndicatorNeeds[k][2]

\* C28: calculateAllIndicators returns a bundle with all 15 indicator keys,
\* each a value or null; a key whose own sequence is long enough holds a
\* value (vwap1m: when a bar was traded) whichever other keys are null, and
\* a null never makes the call fail.
C28_IndicatorsIndependent ==
  calc.op = "calculateAllIndicators" =>
    /\ calc.agg.outcome = "returned"
    /\ calc.agg.indicators # {}
    /\ \A m \in calc.agg.indicators :
         /\ DOMAIN m = IndicatorKeys
         /\ Cardinality(DOMAIN m) = 15
         /\ \A k \in IndicatorKeys :
              /\ m[k] \in {"value", "null"}
              /\ k # "vwap1m" => (m[k] = "value" <=>
                                   EnoughBars(k, input.candles1m, input.candles5m))
    /\ \E m \in calc.agg.indicators : m["vwap1m"] = "value"

\* a bundle in which the long EMAs and both MACDs are null and the short
\* EMAs, lod and hod are computed
C28_Witness ==
  /\ calc.op = "calculateAllIndicators"
  /\ \E m \in calc.agg.indicators :
       /\ m["ema1m26"] = "null" /\ m["ema1m200"] = "null" /\ m["macd1m"] = "null"
       /\ m["macd5m"] = "null" /\ m["ema5m200"] = "null" /\ m["vwap1m"] = "null"
       /\ m["ema1m12"] = "value" /\ m["ema5m26"] = "value" /\ m["lod"] = "value"

\* the EMA and MACD operands the rules of the rule set read
RuleOperands(rs) ==
  IF rs = "simplified" THEN {"ema1m18", "ema1m200", "macd5m"}
  ELSE {"ema1m18", "ema1m200", "macd5m", "macd1m", "ema5m18", "ema5m200"}

\* C29: whenever acquisition succeeds, every EMA and MACD operand the rule
\* set reads is defined in the bundle handed to the evaluator.
C29_AcceptedMeansDefined ==
  pc = "aggregated" =>
    \A k \in RuleOperands(ruleSet) :
      IF k \in {"macd5m", "macd1m"} THEN indicatorData.indicators[k].t = "obj"
      ELSE ~IsNullish(indicatorData.indicators[k])

(***************************************************************************)
(* Properties of the session filter, of staleness and of the reference     *)
(* price.                                                                  *)
(***************************************************************************)
\* the bar's UTC minute of day, 60 * hours + minutes
MinuteOfDay(timestamp) ==
  LET hours == (timestamp \div 60) % 24
      minutes == timestamp % 60
  IN  60 * hours + minutes

InSession(timestamp) == 810 <= MinuteOfDay(timestamp) /\ MinuteOfDay(timestamp) < 1200

\* the position in candles of the n-th bar that lies in the session
SessionBar(candles, n) ==
  CHOOSE i \in 1..Len(candles) :
    /\ InSession(candles[i])
    /\ Cardinality({j \in 1..i : InSession(candles[j])}) = n

KeptInOrder(candles, kept) ==
  /\ Len(kept) = Cardinality({i \in 1..Len(candles) : InSession(candles[i])})
  /\ \A n \in 1..Len(kept) : kept[n] = candles[SessionBar(candles, n)]

\* C33: on every attempt the session filter keeps, of the fine and of the
\* coarse sequence as fetched, exactly the bars whose UTC minute of day m
\* satisfies 810 <= m < 1200, in their order.
C33_SessionFilter ==
  calc.op = "marketHours" =>
    /\ KeptInOrder(input.stamps, calc.kept1m)
    /\ KeptInOrder(input.stamps, calc.kept5m)

\* a widened fetch whose first bar (13:30 of the earlier day) is kept, with
\* the 13:29 and 20:00 bars dropped and the 13:30 and 19:59 bars kept
C33_Witness ==
  /\ calc.op = "marketHours"
  /\ input.stamps = <<810, 1440 + 809, 1440 + 810, 1440 + 1199, 1440 + 1200>>
  /\ calc.kept1m = <<810, 1440 + 810, 1440 + 1199>>
  /\ calc.kept5m = calc.kept1m

\* the age of a last bar, in minutes, at evaluation time
Age(lastTime) == Now - lastTime

\* C34: the freshness check warns about a timeframe if and only if the age
\* of that timeframe's last bar is greater than 24 hours.
C34_StaleIffOlderThanThreshold ==
  (calc.op = "calculateAllIndicators" /\ calc.agg.outcome = "returned"
     /\ input.candles1m.total > 0 /\ input.candles5m.total > 0) =>
    /\ "1m candle data is stale" \in calc.agg.warnings
         <=> Age(input.last1m) > 24 * 60
    /\ "5m candle data is stale" \in calc.agg.warnings
         <=> Age(input.last5m) > 24 * 60

\* the price the rule is to compare: currentPrice when the input supplies a
\* non-null one, else lastCandle.close
ReferencePrice(inp) ==
  IF ~IsNullish(inp.currentPrice) THEN inp.currentPrice
  ELSE IF inp.lastCandle.t = "obj" THEN inp.lastCandle.close ELSE Undef

\* the rule that reads the price, and the indicator it is compared with
PriceRule(rs) == IF rs = "simplified" THEN "priceAboveVwap" ELSE "closeAboveEma18_1m"
PriceOperand(rs, inp) ==
  IF rs = "simplified" THEN inp.indicators.vwap1m ELSE inp.indicators.ema1m18

\* C35: the price rule compares currentPrice when the input supplies a
\* non-null currentPrice and lastCandle.close only when currentPrice is null
\* or missing; with both missing the rule is false.
C35_ReferencePrice ==
  Returned =>
    /\ lastCall.verdict.conditions[PriceRule(ruleSet)]
         = isGreaterThanWithTolerance(ReferencePrice(indicatorData),
                                      PriceOperand(ruleSet, indicatorData))
    /\ PriceMissing(indicatorData)
         => lastCall.verdict.conditions[PriceRule(ruleSet)] = FALSE

(***************************************************************************)
(* Properties of processAlert.                                             *)
(***************************************************************************)
\* C36: one processAlert call enters processAlertNormally at most once,
\* whatever the alert's type, so that its acquisition loop (at most 4
\* attempts) runs at most once for the alert.
C36_NormallyAtMostOnce ==
  \A i \in AlertIds :
    /\ alerts[i].run <= 1
    /\ alerts[i].attemptCount <= maxAttempts

(***************************************************************************)
(* Properties of the ToplistService.                                       *)
(***************************************************************************)
\* a socket created by connect() opens
SocketOpens == WsOpen \/ EarlierOpen

\* a socket that disconnect() did not close fails or is closed by the peer
UnexpectedClose == WsClose \/ EarlierClose

\* a step sets a reconnect timer
Schedules == toplist'.timers = toplist.timers + 1

\* C37: 0 <= reconnectAttempts <= maxReconnectAttempts (5) in every state; an
\* unexpected close schedules a reconnect iff reconnectAttempts < 5 at that
\* moment; an open resets reconnectAttempts to 0; and while reconnectAttempts
\* stands at 5 no step schedules a connect.
C37_BoundedReconnect ==
  /\ [](toplist.reconnectAttempts \in 0..5)
  /\ [][UnexpectedClose => (Schedules <=> toplist.reconnectAttempts < 5)]_vars
  /\ [][SocketOpens => toplist'.reconnectAttempts = 0]_vars
  /\ [][(toplist.reconnectAttempts = 5 /\ toplist'.reconnectAttempts = 5)
          => toplist'.timers <= toplist.timers]_vars

\* the first socket and the five scheduled reconnects have all failed; the
\* last close scheduled nothing
C37_Witness ==
  /\ toplist.reconnectAttempts = 5
  /\ toplist.sockets = 6
  /\ toplist.ws = "closed"
  /\ toplist.connecting = 0 /\ toplist.open = 0 /\ toplist.closing = 0
  /\ toplist.timers = 0

\* C38: from a disconnect() until connect() or fetchToplistData() is called,
\* no reconnect is scheduled as a consequence of the close it initiated,
\* isConnected stays false and ws stays null.
C38_StaysDisconnected ==
  toplist.afterDisconnect =>
    /\ toplist.timers = 0
    /\ toplist.isConnected = FALSE
    /\ toplist.ws = "null"

\* the sockets that are connecting or open
LiveSockets ==
  (IF toplist.ws \in {"connecting", "open"} THEN 1 ELSE 0)
    + toplist.connecting + toplist.open

\* C39: at most one socket is connecting or open, and isConnected is true
\* iff the socket this.ws refers to is open.
C39_OneLiveSocket ==
  /\ LiveSockets <= 1
  /\ toplist.isConnected <=> toplist.ws = "open"

====
